---- MODULE Spec2Model ----
(***************************************************************************)
(* Keyword-gap pipeline of the SEO analyzer.                               *)
(*                                                                         *)
(*   dataforseo_collection.py  __main__ : fetch ranked keywords, compute   *)
(*       gaps (process_keyword_gaps), fetch the two enrichment feeds,      *)
(*       save the results file.                                            *)
(*   generate_report.py        module body: load the saved file, enrich    *)
(*       and categorize top_100 into four buckets, sort each bucket.       *)
(*                                                                         *)
(* Python dicts are records; a key that is absent from the dict is absent  *)
(* from the record's DOMAIN, and d.get(k, default) is Get(d, k, default).  *)
(* The nested dicts of a ranked-keyword item (keyword_data, keyword_info,  *)
(* ranked_serp_element, serp_item) are flattened to the leaf keys the code *)
(* reads.  Strings are sequences of one-character strings, so lower() and  *)
(* the `in` substring test are computed character by character.            *)
(* Floats (competition, difficulty) are fixed-point integers in units of   *)
(* 1/Scale; cpc is an integer number of cents.                             *)
(***************************************************************************)
EXTENDS Integers, Sequences, FiniteSets, TLC

VARIABLES
    pc,                 \* position of dataforseo_collection.py's __main__
    ranked_keywords,    \* results['ranked_keywords'], an insertion-ordered dict
    all_gaps,           \* results['gaps']['all_gaps']
    top_100,            \* results['gaps']['top_100']
    keyword_enrichment, \* results['keyword_enrichment']
    search_intent,      \* results['search_intent']
    exit_code,          \* exit status of the collection run, -1 while running
    final_file,         \* the saved dataforseo_final_*.json, <<>> before any save
    rpc,                \* position of generate_report.py
    top_100_gaps,       \* generate_report.py: the loaded (then enriched) gap list
    categorized_gaps,   \* generate_report.py: the four buckets
    passes,             \* how many times the categorization loop ran on top_100_gaps
    first_pass,         \* history: top_100_gaps and buckets after the first pass
    gpc,                \* google_integration.py: position of the GoogleIntegration object's user
    creds,              \* GoogleIntegration.creds
    gsc_service,        \* GoogleIntegration.gsc_service
    ga4_client,         \* GoogleIntegration.ga4_client
    data,               \* GoogleIntegration.data
    token_file,         \* token.json on disk
    google_env,         \* whether client_secret.json is on disk
    google_log,         \* history: the calls made to the login flow and the APIs
    urls,               \* collect_data.py: the url_data list of analyze_sitemap_urls
    categorization,     \* collect_data.py: its count of URLs per type
    config_file,        \* utils/config_loader.py: the file at config_path
    config_result,      \* utils/config_loader.py: how Config(config_path) ended
    total_cost,         \* dataforseo_collection.py: results['metadata']['total_cost']
    api_log,            \* history: the calls of phase 1 and what each returned
    workflow_results,   \* run_analysis.py: the results list of run_all_steps
    workflow_report     \* run_analysis.py: the summary run_all_steps prints

sitemapVars == << urls, categorization >>
configVars == << config_file, config_result >>
apiVars == << total_cost, api_log >>
workflowVars == << workflow_results, workflow_report >>
googleVars == << gpc, creds, gsc_service, ga4_client, data, token_file,
                 google_env, google_log >>

\* the variables of the other programs of the repository, which the
\* keyword-gap pipeline never touches
toolVars == << googleVars, sitemapVars, configVars, apiVars, workflowVars >>

vars == << pc, ranked_keywords, all_gaps, top_100, keyword_enrichment,
           search_intent, exit_code, final_file, rpc, top_100_gaps,
           categorized_gaps, passes, first_pass, toolVars >>

collectVars == << pc, ranked_keywords, all_gaps, top_100, keyword_enrichment,
                  search_intent, exit_code, final_file >>

reportVars == << rpc, top_100_gaps, categorized_gaps, passes, first_pass >>
notGoogleVars == << collectVars, reportVars, sitemapVars, configVars, apiVars,
    workflowVars >>
notSitemapVars == << collectVars, reportVars, googleVars, configVars, apiVars,
    workflowVars >>
notConfigVars == << collectVars, reportVars, googleVars, sitemapVars, apiVars,
    workflowVars >>
notApiVars == << collectVars, reportVars, googleVars, sitemapVars, configVars,
    workflowVars >>
notWorkflowVars == << collectVars, reportVars, googleVars, sitemapVars, configVars, apiVars >>

(***************************************************************************)
(* Bounds of the model.                                                    *)
(***************************************************************************)
\* Total number of ranked-keyword records the API returns over all domains.
MaxRecords == 3

\* The cap on unique keywords (the literal 100 of
\* dataforseo_collection.py:298), scaled down so that corpora of MaxRecords
\* records reach it.  Every statement about "100" is made about TopLimit.
TopLimit == 2

\* Total number of records (gaps + enrichment items + intent items) of a
\* saved file the report specification starts from.
MaxFileRecords == 3

\* How often the categorization loop is run over the same in-memory list.
MaxPasses == 2

(***************************************************************************)
(* Strings                                                                 *)
(***************************************************************************)
UpperLetters ==
    << "A","B","C","D","E","F","G","H","I","J","K","L","M",
       "N","O","P","Q","R","S","T","U","V","W","X","Y","Z" >>

LowerLetters ==
    << "a","b","c","d","e","f","g","h","i","j","k","l","m",
       "n","o","p","q","r","s","t","u","v","w","x","y","z" >>

LowerChar(c) ==
    IF \E i \in 1..26 : UpperLetters[i] = c
    THEN LowerLetters[CHOOSE i \in 1..26 : UpperLetters[i] = c]
    ELSE c

\* str.lower()
Lower(s) == [i \in 1..Len(s) |-> LowerChar(s[i])]

\* `w in s` for two strings
Contains(s, w) ==
    \E i \in 0..(Len(s) - Len(w)) : SubSeq(s, i + 1, i + Len(w)) = w

\* d.get(k, default)
Get(d, k, default) == IF k \in DOMAIN d THEN d[k] ELSE default

\* Python truthiness of a keyword value: None, a missing key and "" are all
\* falsy; the model writes all three as the empty string.
NoKeyword == << >>

Truthy(keyword) == keyword # NoKeyword


Range(s) == { s[i] : i \in 1..Len(s) }

(***************************************************************************)
(* Configuration loaded at dataforseo_collection.py:33-39                  *)
(***************************************************************************)
TARGET_DOMAIN == "target.example"

\* list(COMPETITORS.keys()), in the order of the config file
COMPETITORS == << "comp-a.example", "comp-b.example" >>

all_domains == << TARGET_DOMAIN >> \o COMPETITORS

(***************************************************************************)
(* Keywords used by the bounded inputs                                     *)
(***************************************************************************)
kBuy    == << "b","u","y" >>
kBuyCap == << "B","u","y" >>
kHow    == << "h","o","w" >>
kZen    == << "z","e","n" >>
kBest   == << "b","e","s","t" >>
kBestCap == << "B","e","s","t" >>

(***************************************************************************)
(* Ranked-keyword items the API may return (one record per item; an        *)
(* absent key is absent from the record).                                  *)
(***************************************************************************)
ItemPool ==
    { [keyword |-> kBuy,    rank_absolute |-> 4,  search_volume |-> 500, cpc |-> 120, competition |-> 300],
      [keyword |-> kBuyCap, rank_absolute |-> 12, search_volume |-> 500, cpc |-> 120],
      [keyword |-> kBuyCap, search_volume |-> 700, competition |-> 300],
      [keyword |-> kHow,    rank_absolute |-> 4,  search_volume |-> 700, cpc |-> 0, competition |-> 0],
      [keyword |-> kZen,    rank_absolute |-> 30],
      [rank_absolute |-> 4, search_volume |-> 500, cpc |-> 120, competition |-> 300] }

TargetPool ==
    { [keyword |-> kBuyCap, rank_absolute |-> 1, search_volume |-> 700, cpc |-> 120, competition |-> 300],
      [keyword |-> kZen,    rank_absolute |-> 2, search_volume |-> 100],
      [rank_absolute |-> 3, search_volume |-> 100] }

(***************************************************************************)
(* process_keyword_gaps  (dataforseo_collection.py:251-307)                *)
(***************************************************************************)
\* Mutant of ItemsOf: a domain without a corpus gets the first stored corpus
\* instead of the empty list.
ItemsOfOrFirst(rk, domain) ==
    LET idx == { i \in 1..Len(rk) : rk[i].domain = domain }
    IN  IF idx # {} THEN rk[CHOOSE i \in idx : TRUE].items
        ELSE IF rk = << >> THEN << >> ELSE rk[1].items

\* results['ranked_keywords'].get(domain, [])
ItemsOf(rk, domain) ==
    LET idx == { i \in 1..Len(rk) : rk[i].domain = domain }
    IN  IF idx = {} THEN << >> ELSE rk[CHOOSE i \in idx : TRUE].items

\* item.get('keyword_data', {}).get('keyword'): None when absent
KeywordOf(item) == Get(item, "keyword", NoKeyword)

\* lines 258-262: the set of lowercased target keywords
TargetKeywords(rk) ==
    { Lower(KeywordOf(item)) :
        item \in { it \in Range(ItemsOf(rk, TARGET_DOMAIN)) : Truthy(KeywordOf(it)) } }

\* Mutant of IsGapItem: the keyword is compared without lower().
IsGapItemCaseSensitive(item, target_keywords) ==
    /\ Truthy(KeywordOf(item))
    /\ KeywordOf(item) \notin target_keywords

\* line 277: the record becomes a gap
IsGapItem(item, target_keywords) ==
    /\ Truthy(KeywordOf(item))
    /\ Lower(KeywordOf(item)) \notin target_keywords

\* lines 278-285
MakeGap(item, comp_domain) ==
    [ keyword             |-> KeywordOf(item),
      competitor          |-> comp_domain,
      competitor_position |-> Get(item, "rank_absolute", 999),
      search_volume       |-> Get(item, "search_volume", 0),
      cpc                 |-> Get(item, "cpc", 0),
      competition         |-> Get(item, "competition", 0) ]

\* Mutant of DomainGaps: the walk over a domain's records ends at the first
\* record without keyword text.
DomainGapsStopAtMalformed(entry, target_keywords) ==
    LET bad == { i \in 1..Len(entry.items) : ~Truthy(KeywordOf(entry.items[i])) }
        upto == IF bad = {} THEN Len(entry.items)
                ELSE (CHOOSE i \in bad : \A j \in bad : i <= j) - 1
        keep(item) == IsGapItem(item, target_keywords)
        kept == SelectSeq(SubSeq(entry.items, 1, upto), keep)
    IN  [ i \in 1..Len(kept) |-> MakeGap(kept[i], entry.domain) ]

\* lines 273-286 for one competitor domain
DomainGaps(entry, target_keywords) ==
    LET keep(item) == IsGapItem(item, target_keywords)
        kept == SelectSeq(entry.items, keep)
    IN  [ i \in 1..Len(kept) |-> MakeGap(kept[i], entry.domain) ]

\* Mutant of EmitGaps: the walk stops after the first competitor domain.
EmitGapsFirstCompetitorOnly(rk, target_keywords) ==
    LET competitor(entry) == entry.domain # TARGET_DOMAIN
        others == SelectSeq(rk, competitor)
    IN  IF others = << >> THEN << >> ELSE DomainGaps(Head(others), target_keywords)

\* lines 269-286: the dict is walked in insertion order, the target skipped
RECURSIVE EmitGaps(_, _)
EmitGaps(rk, target_keywords) ==
    IF rk = << >> THEN << >>
    ELSE IF Head(rk).domain = TARGET_DOMAIN
         THEN EmitGaps(Tail(rk), target_keywords)
         ELSE DomainGaps(Head(rk), target_keywords)
                \o EmitGaps(Tail(rk), target_keywords)

\* sorted(..., key=search volume, reverse=True): stable, so elements of equal
\* volume keep their order.  Inserting the elements in their order, each one
\* behind every element whose volume is not smaller, is that sort.
InsertByVolume(sorted, g) ==
    LET v == Get(g, "search_volume", 0)
        k == Cardinality({ i \in 1..Len(sorted) : Get(sorted[i], "search_volume", 0) >= v })
    IN  SubSeq(sorted, 1, k) \o << g >> \o SubSeq(sorted, k + 1, Len(sorted))

RECURSIVE SortedByVolume(_)
SortedByVolume(s) ==
    IF s = << >> THEN << >>
    ELSE InsertByVolume(SortedByVolume(SubSeq(s, 1, Len(s) - 1)), s[Len(s)])

Reverse(s) == [ i \in 1..Len(s) |-> s[Len(s) + 1 - i] ]

\* Python's None as the value of a numeric field (a JSON null in the API's
\* answer): a value that is no volume, rank or price.  d.get(k, default)
\* returns it, not the default, when the key is present.
None == -1000000

\* Mutant of SortRaises: the largest gap is taken with max(), which raises
\* ValueError on an empty list.
SortRaisesOnEmpty(gaps) ==
    \/ gaps = << >>
    \/ /\ Len(gaps) >= 2
       /\ \E i \in 1..Len(gaps) : gaps[i].search_volume = None

\* line 289: sorted() compares the keys with `<`; None < int, int < None and
\* None < None all raise TypeError, and every element of a list of two or
\* more is compared at least once.
SortRaises(gaps) ==
    /\ Len(gaps) >= 2
    /\ \E i \in 1..Len(gaps) : gaps[i].search_volume = None

\* Mutant of SortAllGaps: an ascending sort that is then reversed, which
\* reverses the order of gaps of equal volume.
SortAllGapsTiesReversed(gaps) == SortedByVolume(Reverse(gaps))

\* Mutant of SortAllGaps: the list is left in emission order.
SortAllGapsMissing(gaps) == gaps

\* line 289
SortAllGaps(gaps) == SortedByVolume(gaps)

\* lines 292-299
RECURSIVE Deduplicate(_, _, _)
Deduplicate(gaps, seen_keywords, unique_gaps) ==
    IF gaps = << >> THEN unique_gaps
    ELSE LET gap == Head(gaps)
             key == Lower(gap.keyword)
         IN  IF key \notin seen_keywords
             THEN IF Len(unique_gaps) + 1 >= TopLimit
                  THEN Append(unique_gaps, gap)
                  ELSE Deduplicate(Tail(gaps), seen_keywords \cup {key},
                                   Append(unique_gaps, gap))
             ELSE Deduplicate(Tail(gaps), seen_keywords, unique_gaps)

\* Mutant of UniqueGaps: the first TopLimit gaps are taken without
\* deduplication.
UniqueGapsSliceOnly(sorted_gaps) ==
    SubSeq(sorted_gaps, 1, IF Len(sorted_gaps) < TopLimit THEN Len(sorted_gaps) ELSE TopLimit)

\* lines 291-299
UniqueGaps(sorted_gaps) == Deduplicate(sorted_gaps, {}, << >>)


(***************************************************************************)
(* generate_report.py:94-152: enrichment join and categorization           *)
(***************************************************************************)
\* Unit of the fixed-point numbers standing for the floats competition and
\* difficulty: the float c is the integer c * Scale.
Scale == 1000

\* d[k] = v on a dict
Put(d, k, v) == (k :> v) @@ d

\* lines 106-107 and 115-116: {item['keyword']: item for item in feed} keeps
\* the last item of each keyword; the lookup is by the literal keyword.
HasEntry(feed, keyword) == \E i \in 1..Len(feed) : feed[i].keyword = keyword

FeedEntry(feed, keyword) ==
    LET idx == { i \in 1..Len(feed) : feed[i].keyword = keyword }
    IN  feed[CHOOSE i \in idx : \A j \in idx : j <= i]

\* Mutant of Difficulty: the product is rounded to a whole number.
DifficultyRounded(feed, keyword) ==
    IF HasEntry(feed, keyword) /\ "competition" \in DOMAIN FeedEntry(feed, keyword)
    THEN Scale * ((FeedEntry(feed, keyword).competition * 100 + Scale \div 2) \div Scale)
    ELSE 0

\* line 120
Difficulty(feed, keyword) ==
    IF HasEntry(feed, keyword) /\ "competition" \in DOMAIN FeedEntry(feed, keyword)
    THEN FeedEntry(feed, keyword).competition * 100
    ELSE 0

\* line 121
EnrichedCpc(feed, keyword) ==
    IF HasEntry(feed, keyword) /\ "cpc" \in DOMAIN FeedEntry(feed, keyword)
    THEN FeedEntry(feed, keyword).cpc
    ELSE 0

\* line 122
Intent(feed, keyword) ==
    IF HasEntry(feed, keyword) /\ "intent" \in DOMAIN FeedEntry(feed, keyword)
    THEN FeedEntry(feed, keyword).intent
    ELSE "unknown"

\* Mutant of Enrich: the feeds are looked up by the lowercased keyword.
EnrichByLoweredKeyword(gap, enrichment_feed, intent_feed) ==
    Put(Put(Put(gap, "difficulty", Difficulty(enrichment_feed, Lower(gap.keyword))),
            "cpc", EnrichedCpc(enrichment_feed, Lower(gap.keyword))),
        "intent", Intent(intent_feed, Lower(gap.keyword)))

\* Mutant of Enrich: the gap keeps the cpc of its ranked-keyword record when
\* the metrics feed gives none.
EnrichKeepingCpc(gap, enrichment_feed, intent_feed) ==
    Put(Put(Put(gap, "difficulty", Difficulty(enrichment_feed, gap.keyword)),
            "cpc", IF EnrichedCpc(enrichment_feed, gap.keyword) # 0
                   THEN EnrichedCpc(enrichment_feed, gap.keyword)
                   ELSE Get(gap, "cpc", 0)),
        "intent", Intent(intent_feed, gap.keyword))

\* lines 118-122: the gap dict is written in place
Enrich(gap, enrichment_feed, intent_feed) ==
    Put(Put(Put(gap, "difficulty", Difficulty(enrichment_feed, gap.keyword)),
            "cpc", EnrichedCpc(enrichment_feed, gap.keyword)),
        "intent", Intent(intent_feed, gap.keyword))

\* line 134
ContentWords ==
    {
      << "h","o","w" >>,
      << "w","h","a","t" >>,
      << "b","e","s","t" >>,
      << "g","u","i","d","e" >>,
      << "t","i","p","s" >>,
      << "c","a","r","e" >> }

\* lines 138-143
ProductWords ==
    {
      << "b","u","y" >>,
      << "s","u","p","p","l","e","m","e","n","t" >>,
      << "v","i","t","a","m","i","n" >>,
      << "p","r","o","d","u","c","t" >>,
      << "p","r","i","c","e" >>,
      << "c","o","s","t" >>,
      << "s","h","o","p" >>,
      << "s","t","o","r","e" >>,
      << "o","n","l","i","n","e" >>,
      << "o","r","d","e","r" >>,
      << "s","a","l","e" >>,
      << "o","f","f","e","r" >>,
      << "d","e","a","l" >>,
      << "d","i","s","c","o","u","n","t" >>,
      << "c","h","e","a","p" >>,
      << "b","e","s","t" >>,
      << "r","e","v","i","e","w" >>,
      << "d","o","g"," ","f","o","o","d" >>,
      << "c","a","t"," ","f","o","o","d" >>,
      << "p","e","t"," ","f","o","o","d" >>,
      << "t","r","e","a","t","s" >>,
      << "c","h","e","w","s" >>,
      << "s","h","a","m","p","o","o" >>,
      << "o","i","l" >>,
      << "s","p","r","a","y" >>,
      << "p","o","w","d","e","r" >>,
      << "t","a","b","l","e","t" >>,
      << "m","e","d","i","c","i","n","e" >> }

\* any(word in keyword.lower() for word in words)
ContainsAny(keyword, words) ==
    LET lowered == Lower(keyword)
    IN  \E word \in words : Contains(lowered, word)

\* line 126
Rule1(gap) ==
    Get(gap, "search_volume", 0) >= 500 /\ Get(gap, "competitor_position", 999) <= 10

\* Mutant of Rule2: the truthiness test of the difficulty is dropped.
Rule2WithoutTruthiness(gap) ==
    /\ gap.difficulty < 40 * Scale
    /\ Get(gap, "search_volume", 0) >= 100

\* line 130
Rule2(gap) ==
    /\ Get(gap, "difficulty", 0) # 0
    /\ gap.difficulty < 40 * Scale
    /\ Get(gap, "search_volume", 0) >= 100

\* Mutant of Rule3: the intent clause is missing, only the substrings count.
Rule3KeywordOnly(gap) == ContainsAny(gap.keyword, ContentWords)

\* line 134
Rule3(gap) ==
    gap.intent = "informational" \/ ContainsAny(gap.keyword, ContentWords)

\* lines 138-143
Rule4(gap) ==
    gap.intent = "transactional" \/ ContainsAny(gap.keyword, ProductWords)

\* lines 98-103
EmptyBuckets ==
    [ high_opportunity |-> << >>, quick_wins |-> << >>,
      content_gaps |-> << >>, product_gaps |-> << >> ]

Categories == { "high_opportunity", "quick_wins", "content_gaps", "product_gaps" }

\* Mutant of Place: rule 2 is an `if` of its own instead of an `elif`.
PlaceIndependentRule2(buckets, gap) ==
    LET first == IF Rule1(gap)
                 THEN [buckets EXCEPT !.high_opportunity = Append(@, gap)]
                 ELSE buckets
    IN  IF Rule2(gap)
        THEN [first EXCEPT !.quick_wins = Append(@, gap)]
        ELSE IF Rule1(gap) THEN first
        ELSE IF Rule3(gap)
        THEN [first EXCEPT !.content_gaps = Append(@, gap)]
        ELSE IF Rule4(gap)
        THEN [first EXCEPT !.product_gaps = Append(@, gap)]
        ELSE [first EXCEPT !.content_gaps = Append(@, gap)]

\* Mutant of Place: the quick-win rule is tested before the high-opportunity
\* rule.
PlaceQuickWinsFirst(buckets, gap) ==
    IF Rule2(gap)
    THEN [buckets EXCEPT !.quick_wins = Append(@, gap)]
    ELSE IF Rule1(gap)
    THEN [buckets EXCEPT !.high_opportunity = Append(@, gap)]
    ELSE IF Rule3(gap)
    THEN [buckets EXCEPT !.content_gaps = Append(@, gap)]
    ELSE IF Rule4(gap)
    THEN [buckets EXCEPT !.product_gaps = Append(@, gap)]
    ELSE [buckets EXCEPT !.content_gaps = Append(@, gap)]

\* Mutant of Place: the product rule is tested before the content rule.
PlaceProductBeforeContent(buckets, gap) ==
    IF Rule1(gap)
    THEN [buckets EXCEPT !.high_opportunity = Append(@, gap)]
    ELSE IF Rule2(gap)
    THEN [buckets EXCEPT !.quick_wins = Append(@, gap)]
    ELSE IF Rule4(gap)
    THEN [buckets EXCEPT !.product_gaps = Append(@, gap)]
    ELSE [buckets EXCEPT !.content_gaps = Append(@, gap)]

\* lines 126-148: the if / elif chain appends the gap to one bucket
Place(buckets, gap) ==
    IF Rule1(gap)
    THEN [buckets EXCEPT !.high_opportunity = Append(@, gap)]
    ELSE IF Rule2(gap)
    THEN [buckets EXCEPT !.quick_wins = Append(@, gap)]
    ELSE IF Rule3(gap)
    THEN [buckets EXCEPT !.content_gaps = Append(@, gap)]
    ELSE IF Rule4(gap)
    THEN [buckets EXCEPT !.product_gaps = Append(@, gap)]
    ELSE [buckets EXCEPT !.content_gaps = Append(@, gap)]

\* lines 109-148: the loop over top_100_gaps; acc.gaps are the dicts already
\* enriched (the list's own elements, written in place)
RECURSIVE CategorizeLoop(_, _, _, _)
CategorizeLoop(gaps, enrichment_feed, intent_feed, acc) ==
    IF gaps = << >> THEN acc
    ELSE LET gap == Enrich(Head(gaps), enrichment_feed, intent_feed)
         IN  CategorizeLoop(Tail(gaps), enrichment_feed, intent_feed,
                            [ gaps    |-> Append(acc.gaps, gap),
                              buckets |-> Place(acc.buckets, gap) ])

\* line 152
SortBucket(bucket) == SortedByVolume(bucket)

\* Mutant of Categorization: the buckets are not emptied (line 98) before the
\* loop, so a further pass appends to those of the pass before.
CategorizationKeepingBuckets(gaps, enrichment_feed, intent_feed) ==
    LET looped == CategorizeLoop(gaps, enrichment_feed, intent_feed,
                                 [ gaps |-> << >>, buckets |-> categorized_gaps ])
    IN  [ gaps    |-> looped.gaps,
          buckets |-> [ c \in Categories |-> SortBucket(looped.buckets[c]) ] ]

\* lines 98-152
Categorization(gaps, enrichment_feed, intent_feed) ==
    LET looped == CategorizeLoop(gaps, enrichment_feed, intent_feed,
                                 [ gaps |-> << >>, buckets |-> EmptyBuckets ])
    IN  [ gaps    |-> looped.gaps,
          buckets |-> [ c \in Categories |-> SortBucket(looped.buckets[c]) ] ]


(***************************************************************************)
(* google_integration.py: the values of a GoogleIntegration object         *)
(***************************************************************************)
\* self.creds is None, or a Credentials object with the attributes the code
\* reads
NoCreds == [ kind |-> "none", valid |-> FALSE, expired |-> FALSE, refresh_token |-> FALSE ]

\* lines 38-53: self.data as __init__ makes it (the date stamp left out)
InitialData ==
    [ gsc |-> [ totals |-> [ clicks |-> 0, impressions |-> 0, ctr |-> 0, position |-> 0 ],
                top_pages |-> << >>, indexed_pages |-> 0 ],
      ga4 |-> [ sessions |-> 0, users |-> 0, engagement_rate |-> 0,
                traffic_trend |-> << >> ],
      status |-> "not_run" ]

NoTokenFile == [ exists |-> FALSE, readable |-> FALSE, creds |-> NoCreds ]

\* no GoogleIntegration object exists
GoogleIdle ==
    /\ gpc = "none"
    /\ creds = NoCreds
    /\ gsc_service = FALSE
    /\ ga4_client = FALSE
    /\ data = InitialData
    /\ token_file = NoTokenFile
    /\ google_env = << >>
    /\ google_log = << >>

\* collect_data.py:173-188: no sitemap under analysis
NoCounts == [ product |-> 0, content |-> 0, category |-> 0, static |-> 0, other |-> 0 ]

SitemapIdle == urls = << >> /\ categorization = NoCounts

\* A value of the parsed YAML: a mapping with its keys, a list with its
\* length, a string with the words it contains, or None.
Node(kind, keys, len) == [ kind |-> kind, keys |-> keys, len |-> len ]

NoneNode == Node("none", { }, 0)

\* utils/config_loader.py: no configuration is being loaded
NoConfigFile ==
    [ exists |-> FALSE, root |-> NoneNode, target |-> NoneNode,
      competitors |-> NoneNode, location |-> NoneNode ]

ConfigIdle == config_file = NoConfigFile /\ config_result = "none"

\* dataforseo_collection.py:56: no call made yet
ApiIdle == total_cost = 0 /\ api_log = << >>

\* run_analysis.py:168: no workflow run yet
WorkflowIdle == workflow_results = << >> /\ workflow_report = "none"

ToolsIdle == GoogleIdle /\ SitemapIdle /\ ConfigIdle /\ ApiIdle /\ WorkflowIdle

(***************************************************************************)
(* google_integration.py:106-290  fetch_gsc_data, its pure parts.  Of the  *)
(* lists lines 219-288 store, the model keeps top_pages; trending_up,      *)
(* trending_down, optimization_needed and top_queries (averages of the     *)
(* float position) are not part of the modelled data.                      *)
(***************************************************************************)
sHttps    == << "h","t","t","p","s",":","/","/" >>
sHttp     == << "h","t","t","p",":","/","/" >>
sHttpWord == << "h","t","t","p" >>
sScDomain == << "s","c","-","d","o","m","a","i","n",":" >>
sSlash    == << "/" >>
sSite     == << "a",".","i","o" >>

\* s.startswith(p)
StartsWith(s, p) == Len(s) >= Len(p) /\ SubSeq(s, 1, Len(p)) = p

\* s.replace(old, ''): the occurrences are removed from left to right
RECURSIVE Remove(_, _)
Remove(s, old) ==
    IF Len(s) < Len(old) THEN s
    ELSE IF SubSeq(s, 1, Len(old)) = old
         THEN Remove(SubSeq(s, Len(old) + 1, Len(s)), old)
         ELSE << Head(s) >> \o Remove(Tail(s), old)

\* s.strip('/')
RECURSIVE StripSlashes(_)
StripSlashes(s) ==
    IF s = << >> THEN s
    ELSE IF Head(s) = "/" THEN StripSlashes(Tail(s))
    ELSE IF s[Len(s)] = "/" THEN StripSlashes(SubSeq(s, 1, Len(s) - 1))
    ELSE s

\* lines 112-113
FormatSiteUrl(site_url) ==
    IF ~StartsWith(site_url, sHttpWord) /\ ~StartsWith(site_url, sScDomain)
    THEN sScDomain \o site_url
    ELSE site_url

\* line 143
CleanDomain(site_url) ==
    StripSlashes(Remove(Remove(Remove(site_url, sHttps), sHttp), sScDomain))

\* lines 142-152, from the site_url the caller passed
SiteVariants(site_url) ==
    LET clean_domain == CleanDomain(FormatSiteUrl(site_url))
    IN  << sScDomain \o clean_domain,
           sHttps \o clean_domain \o sSlash,
           sHttps \o clean_domain >>

\* sum of a field over rows
RECURSIVE SumOf(_, _)
SumOf(rows, field) ==
    IF rows = << >> THEN 0 ELSE rows[1][field] + SumOf(Tail(rows), field)

\* lines 196-202: the pages dict, in the order the pages are first met
RECURSIVE AggregatePages(_, _)
AggregatePages(rows, pages) ==
    IF rows = << >> THEN pages
    ELSE LET row == Head(rows)
             at == { i \in 1..Len(pages) : pages[i].url = row.page }
             next == IF at = {}
                     THEN Append(pages, [ url |-> row.page, clicks |-> row.clicks,
                                          impressions |-> row.impressions ])
                     ELSE [ i \in 1..Len(pages) |->
                              IF i \in at
                              THEN [ pages[i] EXCEPT !.clicks = @ + row.clicks,
                                                     !.impressions = @ + row.impressions ]
                              ELSE pages[i] ]
         IN  AggregatePages(Tail(rows), next)

\* sorted(..., key=clicks, reverse=True), stable
RECURSIVE SortedByClicks(_)
SortedByClicks(s) ==
    IF s = << >> THEN << >>
    ELSE LET rest == SortedByClicks(SubSeq(s, 1, Len(s) - 1))
             g == s[Len(s)]
             k == Cardinality({ i \in 1..Len(rest) : rest[i].clicks >= g.clicks })
         IN  SubSeq(rest, 1, k) \o << g >> \o SubSeq(rest, k + 1, Len(rest))

\* lines 284-287
TopPages(rows) ==
    LET sorted == SortedByClicks(AggregatePages(rows, << >>))
    IN  SubSeq(sorted, 1, IF Len(sorted) < 10 THEN Len(sorted) ELSE 10)

\* Growth rates are kept to one decimal: the model counts them in tenths of
\* a percent.
Tenths == 10

\* round(n / d, 0) for d > 0: to the nearest integer, a tie to the even one
RoundHalfEven(n, d) ==
    LET f == n \div d
        twice == 2 * (n - f * d)
    IN  IF twice > d THEN f + 1
        ELSE IF twice < d THEN f
        ELSE IF f % 2 = 0 THEN f ELSE f + 1

\* Mutant of Growth: the change is measured against the current value.
GrowthOverCurrent(current, previous) ==
    IF current > 0
    THEN RoundHalfEven((current - previous) * 100 * Tenths, current)
    ELSE 0

\* lines 212 and 216: round((current - previous) / previous * 100, 1) if
\* previous > 0 else 0
Growth(current, previous) ==
    IF previous > 0
    THEN RoundHalfEven((current - previous) * 100 * Tenths, previous)
    ELSE 0

\* lines 205-217
Totals(rows_current, rows_prev) ==
    [ clicks             |-> SumOf(rows_current, "clicks"),
      clicks_prev        |-> SumOf(rows_prev, "clicks"),
      clicks_growth      |-> Growth(SumOf(rows_current, "clicks"), SumOf(rows_prev, "clicks")),
      impressions        |-> SumOf(rows_current, "impressions"),
      impressions_prev   |-> SumOf(rows_prev, "impressions"),
      impressions_growth |-> Growth(SumOf(rows_current, "impressions"),
                                    SumOf(rows_prev, "impressions")) ]

(***************************************************************************)
(* State machine                                                           *)
(***************************************************************************)
NoFile ==
    [ saved |-> FALSE, top_100 |-> << >>,
      keyword_enrichment |-> << >>, search_intent |-> << >> ]

NoPass == [ gaps |-> << >>, buckets |-> EmptyBuckets ]

ReportStart ==
    /\ rpc = "start"
    /\ top_100_gaps = << >>
    /\ categorized_gaps = EmptyBuckets
    /\ passes = 0
    /\ first_pass = NoPass

\* dataforseo_collection.py:49-69: the results dict at start-up
PipelineIdle ==
    /\ pc = "phase1"
    /\ ranked_keywords = << >>
    /\ all_gaps = << >>
    /\ top_100 = << >>
    /\ keyword_enrichment = << >>
    /\ search_intent = << >>
    /\ exit_code = -1
    /\ final_file = NoFile
    /\ rpc = "start"
    /\ top_100_gaps = << >>
    /\ categorized_gaps = EmptyBuckets
    /\ passes = 0
    /\ first_pass = NoPass

Init ==
    /\ PipelineIdle
    /\ ToolsIdle

\* lines 350-354: the responses are stored in the order of all_domains, an
\* empty response (failed call, no data) is not stored
StoreFetched(responses) ==
    LET entries == [ i \in 1..Len(all_domains) |->
                        [ domain |-> all_domains[i], items |-> responses[i] ] ]
        nonempty(entry) == entry.items # << >>
    IN  SelectSeq(entries, nonempty)

\* lines 348-354, get_ranked_keywords for every domain
FetchRankedKeywords ==
    /\ pc = "phase1"
    /\ \E nt \in 0..MaxRecords :
         \E na \in 0..(MaxRecords - nt) :
           \E nb \in 0..(MaxRecords - nt - na) :
             \E t \in [1..nt -> TargetPool], a \in [1..na -> ItemPool],
                b \in [1..nb -> ItemPool] :
                ranked_keywords' = StoreFetched(<< t, a, b >>)
    /\ pc' = "phase2"
    /\ UNCHANGED << all_gaps, top_100, keyword_enrichment, search_intent,
                    exit_code, final_file >>
    /\ UNCHANGED << reportVars, toolVars >>

\* line 379: process_keyword_gaps().  A TypeError of the sort is caught
\* nowhere: the interpreter ends with status 1 before lines 301-302 store
\* anything and before any save.
ProcessKeywordGaps ==
    /\ pc = "phase2"
    /\ LET emitted == EmitGaps(ranked_keywords, TargetKeywords(ranked_keywords))
       IN  IF SortRaises(emitted)
           THEN /\ pc' = "raised"
                /\ exit_code' = 1
                /\ UNCHANGED << all_gaps, top_100 >>
           ELSE /\ all_gaps' = SortAllGaps(emitted)
                /\ top_100' = UniqueGaps(SortAllGaps(emitted))
                /\ pc' = "phase2_done"
                /\ UNCHANGED exit_code
    /\ UNCHANGED << ranked_keywords, keyword_enrichment, search_intent, final_file >>
    /\ UNCHANGED << reportVars, toolVars >>

\* save_progress("final"), lines 310-316: of the saved results the model
\* keeps the keys generate_report.py reads
SavedFile ==
    [ saved |-> TRUE, top_100 |-> top_100,
      keyword_enrichment |-> keyword_enrichment, search_intent |-> search_intent ]

\* lines 381-384
NoGapsExit ==
    /\ pc = "phase2_done"
    /\ top_100 = << >>
    /\ final_file' = SavedFile
    /\ exit_code' = 1
    /\ pc' = "exited"
    /\ UNCHANGED << ranked_keywords, all_gaps, top_100, keyword_enrichment,
                    search_intent >>
    /\ UNCHANGED << reportVars, toolVars >>

\* Responses of the two phase-3 calls in a collection run: [] when the call
\* fails, else the items the API returns.
Phase3Overviews ==
    { << >>,
      << [keyword |-> kBuy, competition |-> 200, cpc |-> 95],
         [keyword |-> kHow, cpc |-> 10] >> }

Phase3Intents ==
    { << >>,
      << [keyword |-> kBuy, intent |-> "transactional"],
         [keyword |-> kHow, intent |-> "informational"] >> }

\* lines 395-396
GetKeywordOverview ==
    /\ pc = "phase2_done"
    /\ top_100 # << >>
    /\ \E items \in Phase3Overviews : keyword_enrichment' = items
    /\ pc' = "phase3_intent"
    /\ UNCHANGED << ranked_keywords, all_gaps, top_100, search_intent,
                    exit_code, final_file >>
    /\ UNCHANGED << reportVars, toolVars >>

\* lines 400-401
GetSearchIntent ==
    /\ pc = "phase3_intent"
    /\ \E items \in Phase3Intents : search_intent' = items
    /\ pc' = "final_save"
    /\ UNCHANGED << ranked_keywords, all_gaps, top_100, keyword_enrichment,
                    exit_code, final_file >>
    /\ UNCHANGED << reportVars, toolVars >>

\* line 426 and the end of the script
SaveFinal ==
    /\ pc = "final_save"
    /\ final_file' = SavedFile
    /\ exit_code' = 0
    /\ pc' = "exited"
    /\ UNCHANGED << ranked_keywords, all_gaps, top_100, keyword_enrichment,
                    search_intent >>
    /\ UNCHANGED << reportVars, toolVars >>

\* generate_report.py:35-43, 94-95: load the latest saved file
LoadData ==
    /\ rpc = "start"
    /\ final_file.saved
    /\ top_100_gaps' = final_file.top_100
    /\ rpc' = "loaded"
    /\ UNCHANGED << categorized_gaps, passes, first_pass >>
    /\ UNCHANGED << collectVars, toolVars >>

\* line 110: gap['keyword'] raises KeyError for a dict without that key; the
\* positions of top_100_gaps where it would
KeyErrorAt(gaps) == { i \in 1..Len(gaps) : "keyword" \notin DOMAIN gaps[i] }

\* generate_report.py:98-152, run over the in-memory list; a further pass
\* runs the same lines over the dicts the pass before has enriched.  The
\* KeyError of line 110 is caught nowhere: the script ends at the first gap
\* without a keyword, the gaps before it enriched and appended to their
\* buckets, the buckets not sorted.
CategorizeGaps ==
    /\ rpc \in { "loaded", "categorized" }
    /\ passes < MaxPasses
    /\ IF KeyErrorAt(top_100_gaps) = {}
       THEN LET result == Categorization(top_100_gaps, final_file.keyword_enrichment,
                                         final_file.search_intent)
            IN  /\ top_100_gaps' = result.gaps
                /\ categorized_gaps' = result.buckets
                /\ first_pass' = IF passes = 0 THEN result ELSE first_pass
                /\ rpc' = "categorized"
       ELSE LET k == CHOOSE i \in KeyErrorAt(top_100_gaps) :
                         \A j \in KeyErrorAt(top_100_gaps) : i <= j
                looped == CategorizeLoop(SubSeq(top_100_gaps, 1, k - 1),
                                         final_file.keyword_enrichment,
                                         final_file.search_intent,
                                         [ gaps |-> << >>, buckets |-> EmptyBuckets ])
            IN  /\ top_100_gaps' = looped.gaps
                                      \o SubSeq(top_100_gaps, k, Len(top_100_gaps))
                /\ categorized_gaps' = looped.buckets
                /\ first_pass' = first_pass
                /\ rpc' = "raised"
    /\ passes' = passes + 1
    /\ UNCHANGED << collectVars, toolVars >>

Next ==
    \/ FetchRankedKeywords
    \/ ProcessKeywordGaps
    \/ NoGapsExit
    \/ GetKeywordOverview
    \/ GetSearchIntent
    \/ SaveFinal
    \/ LoadData
    \/ CategorizeGaps

Spec == Init /\ [][Next]_vars


(***************************************************************************)
(* The report alone, started from a saved file.  The file holds what a     *)
(* collection run can have saved: top_100 sorted by volume, one entry per  *)
(* lowercased keyword, at most TopLimit entries, every entry built by      *)
(* MakeGap; the two feeds are whatever the API answered, and are empty     *)
(* when there are no gaps (NoGapsExit saves before phase 3).               *)
(***************************************************************************)
ReportKeywords == { kBest, kBestCap, kBuy, kZen }

ReportVolumes == { 50, 100, 500 }

ReportPositions == { 10, 999 }

GapPool ==
    { MakeGap([keyword |-> k, rank_absolute |-> p, search_volume |-> v, cpc |-> 120],
              COMPETITORS[1]) :
        k \in ReportKeywords, v \in ReportVolumes, p \in ReportPositions }

\* items of the keyword_overview response: with and without a competition
\* value, and one whose keyword differs from the gap's in letter case
EnrichmentPool ==
    { [keyword |-> kBestCap, cpc |-> 95],
      [keyword |-> kBestCap, competition |-> 200, cpc |-> 95],
      [keyword |-> kBestCap, competition |-> 400],
      [keyword |-> kBest,    competition |-> 200, cpc |-> 95],
      [keyword |-> kZen,     competition |-> 399] }

\* items of the search_intent response
IntentPool ==
    { [keyword |-> kBest,    intent |-> "transactional"],
      [keyword |-> kBestCap, intent |-> "transactional"],
      [keyword |-> kBuy,     intent |-> "informational"],
      [keyword |-> kZen,     intent |-> "transactional"] }

\* what lines 289-299 guarantee of a saved top_100
IsSavedTop(gaps) ==
    /\ \A i \in 1..(Len(gaps) - 1) : gaps[i].search_volume >= gaps[i + 1].search_volume
    /\ \A i, j \in 1..Len(gaps) : i # j => Lower(gaps[i].keyword) # Lower(gaps[j].keyword)

InitReport ==
    /\ \E ng \in 0..TopLimit :
         \E ne \in 0..(MaxFileRecords - ng) :
           \E ni \in 0..(MaxFileRecords - ng - ne) :
             \E g \in [1..ng -> GapPool], e \in [1..ne -> EnrichmentPool],
                i \in [1..ni -> IntentPool] :
                /\ ng <= MaxFileRecords
                /\ ng = 0 => (ne = 0 /\ ni = 0)
                /\ IsSavedTop(g)
                /\ top_100 = g
                /\ keyword_enrichment = e
                /\ search_intent = i
    /\ ranked_keywords = << >>
    /\ all_gaps = top_100
    /\ exit_code = IF top_100 = << >> THEN 1 ELSE 0
    /\ pc = "exited"
    /\ final_file = SavedFile
    /\ ReportStart
    /\ ToolsIdle

NextReport ==
    \/ LoadData
    \/ CategorizeGaps

SpecReport == InitReport /\ [][NextReport]_vars


(***************************************************************************)
(* The collection run from phase 2 on, over corpora in which the API gave  *)
(* a null search_volume for some keywords ("search_volume": null) and left *)
(* the key out for others.                                                 *)
(***************************************************************************)
UnknownVolumePool ==
    { [keyword |-> kBuy, rank_absolute |-> 4,  search_volume |-> None, cpc |-> 120],
      [keyword |-> kHow, rank_absolute |-> 4,  search_volume |-> 700, cpc |-> 0],
      [keyword |-> kZen, rank_absolute |-> 30],
      [keyword |-> kBuyCap, rank_absolute |-> 12, search_volume |-> 500, cpc |-> 120] }

\* the state lines 348-354 leave when the responses hold such records
InitUnknownVolume ==
    /\ pc = "phase2"
    /\ \E nt \in 0..MaxRecords :
         \E na \in 0..(MaxRecords - nt) :
           \E nb \in 0..(MaxRecords - nt - na) :
             \E t \in [1..nt -> TargetPool], a \in [1..na -> UnknownVolumePool],
                b \in [1..nb -> UnknownVolumePool] :
                ranked_keywords = StoreFetched(<< t, a, b >>)
    /\ all_gaps = << >>
    /\ top_100 = << >>
    /\ keyword_enrichment = << >>
    /\ search_intent = << >>
    /\ exit_code = -1
    /\ final_file = NoFile
    /\ ReportStart
    /\ ToolsIdle

NextCollect ==
    \/ ProcessKeywordGaps
    \/ NoGapsExit
    \/ GetKeywordOverview
    \/ GetSearchIntent
    \/ SaveFinal

SpecUnknownVolume == InitUnknownVolume /\ [][NextCollect]_vars


(***************************************************************************)
(* The report started from a results file whose top_100 holds malformed    *)
(* gap records: a negative search_volume (the gap engine copies whatever   *)
(* number the API gave) or no 'keyword' key (a file written by other means *)
(* than dataforseo_collection.py; generate_report.py reads whichever       *)
(* dataforseo_final_*.json is the latest).                                 *)
(***************************************************************************)
MalformedGapPool ==
    { MakeGap([keyword |-> kZen, rank_absolute |-> 30, search_volume |-> -5], COMPETITORS[1]),
      [ competitor |-> COMPETITORS[1], competitor_position |-> 999,
        search_volume |-> 500, cpc |-> 0, competition |-> 0 ] }
    \cup { MakeGap([keyword |-> k, rank_absolute |-> 10, search_volume |-> v, cpc |-> 120],
                   COMPETITORS[1]) :
             k \in { kBuy, kBestCap }, v \in { 100, 500 } }

InitMalformedGaps ==
    /\ \E ng \in 0..TopLimit :
         \E ne \in 0..(MaxFileRecords - ng) :
           \E ni \in 0..(MaxFileRecords - ng - ne) :
             \E g \in [1..ng -> MalformedGapPool], e \in [1..ne -> EnrichmentPool],
                i \in [1..ni -> IntentPool] :
                /\ ng <= MaxFileRecords
                /\ \A x \in 1..(ng - 1) : g[x].search_volume >= g[x + 1].search_volume
                /\ \A x, y \in 1..ng : x # y => g[x] # g[y]
                /\ \A x, y \in 1..ng \ KeyErrorAt(g) :
                      x # y => Lower(g[x].keyword) # Lower(g[y].keyword)
                /\ top_100 = g
                /\ keyword_enrichment = e
                /\ search_intent = i
    /\ ranked_keywords = << >>
    /\ all_gaps = top_100
    /\ exit_code = IF top_100 = << >> THEN 1 ELSE 0
    /\ pc = "exited"
    /\ final_file = SavedFile
    /\ ReportStart
    /\ ToolsIdle

SpecMalformedGaps == InitMalformedGaps /\ [][NextReport]_vars


(***************************************************************************)
(* google_integration.py: a GoogleIntegration object and its methods       *)
(***************************************************************************)
\* How many methods are called on the object after its construction.
MaxCalls == 2

\* the credentials the login flow returns
FlowCreds == [ kind |-> "flow", valid |-> TRUE, expired |-> FALSE, refresh_token |-> TRUE ]

\* token.json as a run may find it: absent, unreadable, holding valid
\* credentials, expired ones with a refresh token, expired ones without
TokenFiles ==
    { NoTokenFile,
      [ exists |-> TRUE, readable |-> FALSE, creds |-> NoCreds ] }
    \cup { [ exists |-> TRUE, readable |-> TRUE,
             creds |-> [ kind |-> "token", valid |-> v, expired |-> ~v, refresh_token |-> r ] ] :
             v \in BOOLEAN, r \in BOOLEAN }

\* an entry of the history of calls
Event(op, arg, period, answer, rows) ==
    [ op |-> op, arg |-> arg, period |-> period, answer |-> answer, rows |-> rows ]

MethodCalls == { "init_gsc", "init_ga4", "fetch_gsc_data", "fetch_ga4_data", "save_data" }

NumCalls == Cardinality({ i \in 1..Len(google_log) : google_log[i].op \in MethodCalls })

\* lines 35-53, before authenticate_user is called at line 54
InitGoogle ==
    /\ PipelineIdle
    /\ WorkflowIdle
    /\ SitemapIdle
    /\ ConfigIdle
    /\ ApiIdle
    /\ gpc = "new"
    /\ creds = NoCreds
    /\ gsc_service = FALSE
    /\ ga4_client = FALSE
    /\ data = InitialData
    /\ token_file \in TokenFiles
    /\ google_env \in { [ client_secret |-> s ] : s \in BOOLEAN }
    /\ google_log = << >>

\* lines 56-83; the refresh, the login flow and the write of the token may
\* each raise, and each exception is caught
AuthenticateUser ==
    /\ gpc = "new"
    /\ \E refresh_ok \in BOOLEAN, flow \in { "ok", "raises", "unwritable" } :
         LET loaded == IF token_file.exists
                       THEN IF token_file.readable THEN token_file.creds ELSE NoCreds
                       ELSE creds
             outer == loaded.kind = "none" \/ ~loaded.valid
             refreshed ==
                 IF outer /\ loaded.kind # "none" /\ loaded.expired /\ loaded.refresh_token
                 THEN IF refresh_ok
                      THEN [ loaded EXCEPT !.valid = TRUE, !.expired = FALSE ]
                      ELSE NoCreds
                 ELSE loaded
             login == outer /\ refreshed.kind = "none" /\ google_env.client_secret
         IN  /\ creds' = IF login
                         THEN IF flow = "raises" THEN NoCreds ELSE FlowCreds
                         ELSE refreshed
             /\ token_file' = IF login /\ flow = "ok"
                              THEN [ exists |-> TRUE, readable |-> TRUE, creds |-> FlowCreds ]
                              ELSE token_file
             /\ google_log' = IF login
                              THEN Append(google_log, Event("login_flow", << >>, "", flow, << >>))
                              ELSE google_log
    /\ gpc' = "ready"
    /\ UNCHANGED << gsc_service, ga4_client, data, google_env >>
    /\ UNCHANGED notGoogleVars

\* lines 86-94: the value init_gsc returns; build() may raise
InitGscReturns(build_ok) ==
    creds.kind # "none" /\ ~gsc_service /\ build_ok

\* lines 96-104: the value init_ga4 returns
InitGa4Returns(build_ok) ==
    creds.kind # "none" /\ ~ga4_client /\ build_ok

\* init_gsc() called by the object's user
InitGsc ==
    /\ gpc = "ready"
    /\ NumCalls < MaxCalls
    /\ \E build_ok \in BOOLEAN :
         /\ gsc_service' = (gsc_service \/ InitGscReturns(build_ok))
         /\ google_log' = Append(google_log,
                Event("init_gsc", << >>, "",
                      IF InitGscReturns(build_ok) THEN "True" ELSE "False", << >>))
    /\ UNCHANGED << gpc, creds, ga4_client, data, token_file, google_env >>
    /\ UNCHANGED notGoogleVars

\* init_ga4() called by the object's user
InitGa4 ==
    /\ gpc = "ready"
    /\ NumCalls < MaxCalls
    /\ \E build_ok \in BOOLEAN :
         /\ ga4_client' = (ga4_client \/ InitGa4Returns(build_ok))
         /\ google_log' = Append(google_log,
                Event("init_ga4", << >>, "",
                      IF InitGa4Returns(build_ok) THEN "True" ELSE "False", << >>))
    /\ UNCHANGED << gpc, creds, gsc_service, data, token_file, google_env >>
    /\ UNCHANGED notGoogleVars


\* What Search Console answers to the two period queries of one property
\* variant: rows, a denial (403), or another error.
GscAnswer(current, previous) == [ current |-> current, previous |-> previous ]

\* The answers to the three variants: all accessible; the first denied at
\* once; the first denied for the previous period and the second failing
\* otherwise; the first two denied; all three denied.
GscAccess ==
    { << GscAnswer("rows", "rows"), GscAnswer("rows", "rows"), GscAnswer("rows", "rows") >>,
      << GscAnswer("denied", "rows"), GscAnswer("rows", "rows"), GscAnswer("denied", "rows") >>,
      << GscAnswer("rows", "denied"), GscAnswer("error", "rows"), GscAnswer("rows", "rows") >>,
      << GscAnswer("denied", "rows"), GscAnswer("rows", "denied"), GscAnswer("rows", "error") >>,
      << GscAnswer("denied", "rows"), GscAnswer("rows", "denied"), GscAnswer("denied", "denied") >> }

GscRow(page, clicks, impressions) ==
    [ page |-> page, clicks |-> clicks, impressions |-> impressions ]

\* The rows of the two periods, as the API may return them.
GscRowSets ==
    { [ current  |-> << GscRow("/a", 60, 600), GscRow("/b", 40, 500) >>,
        previous |-> << GscRow("/a", 80, 1000) >> ],
      [ current  |-> << GscRow("/a", 7, 90), GscRow("/a", 5, 10), GscRow("/b", 9, 50) >>,
        previous |-> << >> ],
      [ current  |-> << >>,
        previous |-> << GscRow("/b", 30, 300) >> ] }

\* The site urls fetch_gsc_data is called with.
SiteUrls == { sSite, sHttps \o sSite \o sSlash }

\* lines 123-139: the rows get_period_data returns when it does not raise
PeriodData(answer, rows) == IF answer = "rows" THEN rows ELSE << >>

\* Mutant of TryVariants: only a denial of the current period moves on to
\* the next variant.
RECURSIVE TryVariantsCurrentOnly(_, _, _, _)
TryVariantsCurrentOnly(variants, answers, rows, i) ==
    IF i > Len(variants)
    THEN [ active |-> 0, queries |-> << >> ]
    ELSE LET q_current == Event("query", variants[i], "current", answers[i].current,
                                PeriodData(answers[i].current, rows.current))
             q_previous == Event("query", variants[i], "previous", answers[i].previous,
                                 PeriodData(answers[i].previous, rows.previous))
         IN  IF answers[i].current = "denied"
             THEN LET rest == TryVariantsCurrentOnly(variants, answers, rows, i + 1)
                  IN  [ rest EXCEPT !.queries = << q_current >> \o @ ]
             ELSE [ active |-> i, queries |-> << q_current, q_previous >> ]

\* lines 159-169: the queries made from variant i on, and the variant that
\* was accessible (0 when none was)
RECURSIVE TryVariants(_, _, _, _)
TryVariants(variants, answers, rows, i) ==
    IF i > Len(variants)
    THEN [ active |-> 0, queries |-> << >> ]
    ELSE LET q_current == Event("query", variants[i], "current", answers[i].current,
                                PeriodData(answers[i].current, rows.current))
             q_previous == Event("query", variants[i], "previous", answers[i].previous,
                                 PeriodData(answers[i].previous, rows.previous))
         IN  IF answers[i].current = "denied"
             THEN LET rest == TryVariants(variants, answers, rows, i + 1)
                  IN  [ rest EXCEPT !.queries = << q_current >> \o @ ]
             ELSE IF answers[i].previous = "denied"
             THEN LET rest == TryVariants(variants, answers, rows, i + 1)
                  IN  [ rest EXCEPT !.queries = << q_current, q_previous >> \o @ ]
             ELSE [ active |-> i, queries |-> << q_current, q_previous >> ]

\* lines 106-290
FetchGscData ==
    /\ gpc = "ready"
    /\ NumCalls < MaxCalls
    /\ \E site_url \in SiteUrls, build_ok \in BOOLEAN,
          answers \in GscAccess, rows \in GscRowSets :
         LET call == Event("fetch_gsc_data", << >>, "", "", << >>)
             variants == SiteVariants(site_url)
             tried == TryVariants(variants, answers, rows, 1)
             rows_current == PeriodData(answers[tried.active].current, rows.current)
             rows_prev == PeriodData(answers[tried.active].previous, rows.previous)
         IN  /\ gsc_service' = (gsc_service \/ InitGscReturns(build_ok))
             /\ IF ~InitGscReturns(build_ok)
                THEN /\ google_log' = Append(google_log, call)
                     /\ data' = data
                ELSE /\ google_log' = Append(google_log, call) \o tried.queries
                     /\ IF tried.active = 0
                        THEN data' = data
                        ELSE data' = [ data EXCEPT
                                 !.gsc.totals = Totals(rows_current, rows_prev),
                                 !.gsc.top_pages = TopPages(rows_current) ]
    /\ UNCHANGED << gpc, creds, ga4_client, token_file, google_env >>
    /\ UNCHANGED notGoogleVars

Ga4Row(date, sessions, users, engagement) ==
    [ date |-> date, sessions |-> sessions, users |-> users, engagement |-> engagement ]

\* The rows of a GA4 report: the date is the number YYYYMMDD, the engagement
\* rate counts in thousandths.
Ga4Reports ==
    { << Ga4Row(20240102, 60, 50, 600), Ga4Row(20240101, 40, 30, 350) >>,
      << Ga4Row(20231231, 3, 2, 333) >>,
      << >> }

\* The property ids fetch_ga4_data is called with: empty, and "123".
PropertyIds == { << >>, << "1", "2", "3" >> }

\* line 344: YYYYMMDD becomes YYYY-MM-DD, here its three parts
FormatDate(date) == << date \div 10000, (date \div 100) % 100, date % 100 >>

DateBefore(a, b) ==
    \/ a[1] < b[1]
    \/ a[1] = b[1] /\ a[2] < b[2]
    \/ a[1] = b[1] /\ a[2] = b[2] /\ a[3] < b[3]

\* lines 331-345
RECURSIVE Trend(_)
Trend(rows) ==
    IF rows = << >> THEN << >>
    ELSE << [ date |-> FormatDate(Head(rows).date), sessions |-> Head(rows).sessions ] >>
         \o Trend(Tail(rows))

\* line 353: sorted(trend, key=date), a stable sort
RECURSIVE SortedByDate(_)
SortedByDate(s) ==
    IF s = << >> THEN << >>
    ELSE LET rest == SortedByDate(SubSeq(s, 1, Len(s) - 1))
             x == s[Len(s)]
             k == Cardinality({ i \in 1..Len(rest) : ~DateBefore(x.date, rest[i].date) })
         IN  SubSeq(rest, 1, k) \o << x >> \o SubSeq(rest, k + 1, Len(rest))

RECURSIVE WeightedEngagement(_)
WeightedEngagement(rows) ==
    IF rows = << >> THEN 0
    ELSE Head(rows).engagement * Head(rows).sessions + WeightedEngagement(Tail(rows))

\* lines 347-354; the engagement rate in tenths of a percent
Ga4Data(rows) ==
    [ sessions        |-> SumOf(rows, "sessions"),
      users           |-> SumOf(rows, "users"),
      engagement_rate |-> IF SumOf(rows, "sessions") > 0
                          THEN RoundHalfEven(WeightedEngagement(rows) * 100 * Tenths,
                                             SumOf(rows, "sessions") * Scale)
                          ELSE 0,
      traffic_trend   |-> SortedByDate(Trend(rows)) ]

\* lines 291-358
FetchGa4Data ==
    /\ gpc = "ready"
    /\ NumCalls < MaxCalls
    /\ \E property_id \in PropertyIds, build_ok \in BOOLEAN,
          report_ok \in BOOLEAN, rows \in Ga4Reports :
         LET call == Event("fetch_ga4_data", property_id, "", "", << >>)
             report == Event("run_report", property_id, "",
                             IF report_ok THEN "rows" ELSE "error",
                             IF report_ok THEN rows ELSE << >>)
         IN  /\ ga4_client' = (ga4_client \/ InitGa4Returns(build_ok))
             /\ IF ~InitGa4Returns(build_ok) \/ property_id = << >>
                THEN /\ google_log' = Append(google_log, call)
                     /\ data' = data
                ELSE /\ google_log' = google_log \o << call, report >>
                     /\ data' = IF report_ok
                                THEN [ data EXCEPT !.ga4 = Ga4Data(rows) ]
                                ELSE data
    /\ UNCHANGED << gpc, creds, gsc_service, token_file, google_env >>
    /\ UNCHANGED notGoogleVars

\* lines 362-372
SaveData ==
    /\ gpc = "ready"
    /\ NumCalls < MaxCalls
    /\ data' = [ data EXCEPT !.status = "success" ]
    /\ google_log' = Append(google_log, Event("save_data", << >>, "", "", << >>))
    /\ UNCHANGED << gpc, creds, gsc_service, ga4_client, token_file, google_env >>
    /\ UNCHANGED notGoogleVars

NextGoogle ==
    \/ AuthenticateUser
    \/ InitGsc
    \/ InitGa4
    \/ FetchGscData
    \/ FetchGa4Data
    \/ SaveData

SpecGoogle == InitGoogle /\ [][NextGoogle]_vars

(***************************************************************************)
(* collect_data.py:140-188 categorize_url and analyze_sitemap_urls         *)
(***************************************************************************)
\* How many URLs a sitemap holds at most.
MaxUrls == 2

\* line 145
ProductPatterns ==
    << << "/", "p", "r", "o", "d", "u", "c", "t", "s", "/" >>,
       << "/", "p", "r", "i", "c", "i", "n", "g" >>,
       << "/", "f", "e", "a", "t", "u", "r", "e", "s" >>,
       << "/", "s", "o", "l", "u", "t", "i", "o", "n" >>,
       << "/", "s", "e", "r", "v", "i", "c", "e" >>,
       << "/", "t", "o", "o", "l" >> >>

\* line 149
CategoryPatterns ==
    << << "/", "c", "o", "l", "l", "e", "c", "t", "i", "o", "n", "s", "/" >>,
       << "/", "c", "a", "t", "e", "g", "o", "r", "y", "/" >>,
       << "/", "t", "a", "g", "/" >>,
       << "/", "t", "o", "p", "i", "c", "s", "/" >>,
       << "/", "s", "e", "c", "t", "i", "o", "n", "s", "/" >> >>

\* line 153
ContentPatterns ==
    << << "/", "b", "l", "o", "g", "s", "/" >>,
       << "/", "a", "r", "t", "i", "c", "l", "e", "s", "/" >>,
       << "/", "n", "e", "w", "s", "/" >>,
       << "/", "p", "o", "s", "t", "/" >>,
       << "/", "g", "u", "i", "d", "e", "/" >>,
       << "/", "t", "u", "t", "o", "r", "i", "a", "l", "/" >>,
       << "/", "b", "l", "o", "g" >> >>

\* line 155
DatePatterns ==
    << << "/", "2", "0", "2", "3", "/" >>,
       << "/", "2", "0", "2", "4", "/" >>,
       << "/", "2", "0", "2", "5", "/" >> >>

\* line 159
StaticPatterns ==
    << << "/", "p", "a", "g", "e", "s", "/" >>,
       << "/", "a", "b", "o", "u", "t" >>,
       << "/", "c", "o", "n", "t", "a", "c", "t" >>,
       << "/", "t", "e", "r", "m", "s" >>,
       << "/", "p", "r", "i", "v", "a", "c", "y" >>,
       << "/", "l", "e", "g", "a", "l" >> >>

\* any(x in s for x in patterns)
AnyIn(s, patterns) == \E k \in 1..Len(patterns) : Contains(s, patterns[k])

\* the first place of s that holds one of the characters, Len(s) + 1 if none
IndexOfAny(s, chars) ==
    IF \E i \in 1..Len(s) : s[i] \in chars
    THEN CHOOSE i \in 1..Len(s) :
             s[i] \in chars /\ \A j \in 1..(i - 1) : s[j] \notin chars
    ELSE Len(s) + 1

Letters == { UpperLetters[i] : i \in 1..26 } \cup { LowerLetters[i] : i \in 1..26 }

\* line 164, urlparse(url).path: a scheme of letters before the first colon
\* is dropped, then "//" and the network location up to the next "/", "?"
\* or "#", then the fragment from "#" on and the query from "?" on
UrlPath(url) ==
    LET colon == IndexOfAny(url, { ":" })
        schemed == /\ colon > 1
                   /\ colon <= Len(url)
                   /\ \A i \in 1..(colon - 1) : url[i] \in Letters
        rest == IF schemed THEN SubSeq(url, colon + 1, Len(url)) ELSE url
        after_slashes == SubSeq(rest, 3, Len(rest))
        located == IF StartsWith(rest, << "/", "/" >>)
                   THEN SubSeq(after_slashes,
                               IndexOfAny(after_slashes, { "/", "?", "#" }),
                               Len(after_slashes))
                   ELSE rest
        defragmented == SubSeq(located, 1, IndexOfAny(located, { "#" }) - 1)
    IN  SubSeq(defragmented, 1, IndexOfAny(defragmented, { "?" }) - 1)

\* path.count('/')
CountSlashes(path) == Cardinality({ i \in 1..Len(path) : path[i] = "/" })

\* path.split('/')[-1]
RECURSIVE LastSegment(_)
LastSegment(path) ==
    IF path = << >> \/ path[Len(path)] = "/"
    THEN << >>
    ELSE Append(LastSegment(SubSeq(path, 1, Len(path) - 1)), path[Len(path)])

\* Mutant of UrlLower: the URL is matched as it is written.
UrlAsWritten(url) == url

\* line 142
UrlLower(url) == Lower(url)

\* Mutant of PatternType: the static patterns are tried first.
PatternTypeStaticFirst(url_lower) ==
    IF AnyIn(url_lower, StaticPatterns) THEN "static"
    ELSE IF AnyIn(url_lower, ProductPatterns) THEN "product"
    ELSE IF AnyIn(url_lower, CategoryPatterns) THEN "category"
    ELSE IF AnyIn(url_lower, ContentPatterns) THEN "content"
    ELSE IF AnyIn(url_lower, DatePatterns) THEN "content"
    ELSE "none"

\* lines 145-160: the if/elif chain over the patterns, "none" when it gets
\* to the else
PatternType(url_lower) ==
    IF AnyIn(url_lower, ProductPatterns) THEN "product"
    ELSE IF AnyIn(url_lower, CategoryPatterns) THEN "category"
    ELSE IF AnyIn(url_lower, ContentPatterns) THEN "content"
    ELSE IF AnyIn(url_lower, DatePatterns) THEN "content"
    ELSE IF AnyIn(url_lower, StaticPatterns) THEN "static"
    ELSE "none"

\* lines 140-168
categorize_url(url) ==
    LET matched == PatternType(UrlLower(url))
        path == UrlPath(url)
    IN  IF matched # "none" THEN matched
        ELSE IF CountSlashes(path) > 2 /\ ~Contains(LastSegment(path), << "." >>)
        THEN "content"
        ELSE "other"

\* str.upper(), to write the URLs of the sitemap in capitals
UpperChar(c) ==
    IF \E i \in 1..26 : LowerLetters[i] = c
    THEN UpperLetters[CHOOSE i \in 1..26 : LowerLetters[i] = c]
    ELSE c

Upper(s) == [ i \in 1..Len(s) |-> UpperChar(s[i]) ]

\* URLs of a sitemap, in lower case
LowerUrls ==
    { << "h", "t", "t", "p", "s", ":", "/", "/", "a", ".", "i", "o", "/" >>,
      << "h", "t", "t", "p", "s", ":", "/", "/", "a", ".", "i", "o", "/", "s", "e", "a", "r", "c", "h" >>,
      << "h", "t", "t", "p", "s", ":", "/", "/", "a", ".", "i", "o", "/", "a", "c", "c", "o", "u", "n", "t", "/", "l", "o", "g", "i", "n" >>,
      << "h", "t", "t", "p", "s", ":", "/", "/", "a", ".", "i", "o", "/", "p", "r", "o", "d", "u", "c", "t", "s", "/", "x" >>,
      << "h", "t", "t", "p", "s", ":", "/", "/", "a", ".", "i", "o", "/", "c", "o", "l", "l", "e", "c", "t", "i", "o", "n", "s", "/", "a", "l", "l" >>,
      << "h", "t", "t", "p", "s", ":", "/", "/", "a", ".", "i", "o", "/", "b", "l", "o", "g", "s", "/", "p" >>,
      << "h", "t", "t", "p", "s", ":", "/", "/", "a", ".", "i", "o", "/", "p", "a", "g", "e", "s", "/", "f", "a", "q" >>,
      << "h", "t", "t", "p", "s", ":", "/", "/", "a", ".", "i", "o", "/", "p", "r", "o", "d", "u", "c", "t", "s", "/", "b", "l", "o", "g" >>,
      << "h", "t", "t", "p", "s", ":", "/", "/", "a", ".", "i", "o", "/", "t", "a", "g", "/", "p", "r", "i", "c", "i", "n", "g" >>,
      << "h", "t", "t", "p", "s", ":", "/", "/", "a", ".", "i", "o", "/", "t", "a", "g", "/", "a", "b", "o", "u", "t" >>,
      << "h", "t", "t", "p", "s", ":", "/", "/", "a", ".", "i", "o", "/", "b", "l", "o", "g", "/", "a", "b", "o", "u", "t" >>,
      << "h", "t", "t", "p", "s", ":", "/", "/", "a", ".", "i", "o", "/", "2", "0", "2", "4", "/", "l", "e", "g", "a", "l" >>,
      << "h", "t", "t", "p", "s", ":", "/", "/", "a", ".", "i", "o", "/", "a", "/", "b", "/", "c" >>,
      << "h", "t", "t", "p", "s", ":", "/", "/", "a", ".", "i", "o", "/", "a", "/", "b", "/", "c", ".", "h", "t", "m" >>,
      << "h", "t", "t", "p", "s", ":", "/", "/", "a", ".", "i", "o", "/", "x", "?", "u", "=", "/", "a", "/", "b", "/", "c" >>,
      << "h", "t", "t", "p", "s", ":", "/", "/", "a", ".", "i", "o", "/", "a", "/", "b", "/", "#", "c", "/", "d" >> }

\* the URLs that also come in capitals
VariedUrls ==
    { << "h", "t", "t", "p", "s", ":", "/", "/", "a", ".", "i", "o", "/", "p", "r", "o", "d", "u", "c", "t", "s", "/", "x" >>,
      << "h", "t", "t", "p", "s", ":", "/", "/", "a", ".", "i", "o", "/", "c", "o", "l", "l", "e", "c", "t", "i", "o", "n", "s", "/", "a", "l", "l" >>,
      << "h", "t", "t", "p", "s", ":", "/", "/", "a", ".", "i", "o", "/", "b", "l", "o", "g", "s", "/", "p" >>,
      << "h", "t", "t", "p", "s", ":", "/", "/", "a", ".", "i", "o", "/", "p", "a", "g", "e", "s", "/", "f", "a", "q" >>,
      << "h", "t", "t", "p", "s", ":", "/", "/", "a", ".", "i", "o", "/", "t", "a", "g", "/", "p", "r", "i", "c", "i", "n", "g" >>,
      << "h", "t", "t", "p", "s", ":", "/", "/", "a", ".", "i", "o", "/", "a", "/", "b", "/", "c" >>,
      << "h", "t", "t", "p", "s", ":", "/", "/", "a", ".", "i", "o", "/", "x", "?", "u", "=", "/", "a", "/", "b", "/", "c" >>,
      << "h", "t", "t", "p", "s", ":", "/", "/", "a", ".", "i", "o", "/", "s", "e", "a", "r", "c", "h" >> }

UrlPool == LowerUrls \cup { Upper(u) : u \in VariedUrls }

RECURSIVE SeqsUpTo(_, _)
SeqsUpTo(S, n) ==
    IF n = 0 THEN { << >> }
    ELSE LET shorter == SeqsUpTo(S, n - 1)
         IN  shorter \cup { Append(s, x) : s \in { t \in shorter : Len(t) = n - 1 }, x \in S }

\* the url_data list handed to analyze_sitemap_urls
InitSitemap ==
    /\ PipelineIdle
    /\ WorkflowIdle
    /\ GoogleIdle
    /\ ConfigIdle
    /\ ApiIdle
    /\ urls \in { [ i \in 1..Len(s) |-> [ url |-> s[i], type |-> "" ] ] :
                     s \in SeqsUpTo(UrlPool, MaxUrls) \ { << >> } }
    /\ categorization = NoCounts

\* lines 184-187: the counts after the first n entries
RECURSIVE CountTypes(_, _)
CountTypes(url_list, n) ==
    IF n = 0 THEN NoCounts
    ELSE LET url_type == categorize_url(url_list[n].url)
         IN  [ CountTypes(url_list, n - 1) EXCEPT ![url_type] = @ + 1 ]

\* lines 173-187
AnalyzeSitemapUrls ==
    /\ urls # << >>
    /\ \A i \in 1..Len(urls) : urls[i].type = ""
    /\ urls' = [ i \in 1..Len(urls) |->
                   [ urls[i] EXCEPT !.type = categorize_url(urls[i].url) ] ]
    /\ categorization' = CountTypes(urls, Len(urls))
    /\ UNCHANGED notSitemapVars

NextSitemap == AnalyzeSitemapUrls

SpecSitemap == InitSitemap /\ [][NextSitemap]_vars

(***************************************************************************)
(* utils/config_loader.py:15-52 Config.__init__ and _validate              *)
(***************************************************************************)
\* What a section of the file may hold under the keys a and b: nothing,
\* a string without or with the word a in it, or a mapping.
SectionNodes(a, b) ==
    { NoneNode, Node("str", { }, 4), Node("str", { a }, 12) }
    \cup { Node("map", ks, Cardinality(ks)) : ks \in SUBSET { a, b } }

CompetitorNodes ==
    { NoneNode, Node("str", { }, 4), Node("map", { "domain" }, 1),
      Node("list", { }, 0), Node("list", { }, 1), Node("list", { }, 2) }

\* The files at config_path: none, an empty one (it parses to None), and
\* mappings holding any of the three sections.
ConfigFiles ==
    { NoConfigFile, [ NoConfigFile EXCEPT !.exists = TRUE ] }
    \cup { [ exists |-> TRUE, root |-> Node("map", ks, Cardinality(ks)),
             target |-> t, competitors |-> c, location |-> l ] :
             ks \in SUBSET { "target", "competitors", "location" },
             t \in SectionNodes("domain", "name"),
             c \in CompetitorNodes,
             l \in SectionNodes("country", "language_code") }

\* lines 37-43: how the walk down one field path ends, "ok" when every key
\* is there; `key not in current` raises TypeError when current is None,
\* and current[key] raises it when current is a string
RECURSIVE WalkPath(_, _, _)
WalkPath(file, current, field_path) ==
    IF field_path = << >> THEN "ok"
    ELSE LET key == Head(field_path)
         IN  IF current.kind = "none" THEN "TypeError"
             ELSE IF key \notin current.keys THEN "SystemExit"
             ELSE IF current.kind # "map" THEN "TypeError"
             ELSE WalkPath(file, file[key], Tail(field_path))

\* lines 29-35
required_fields ==
    << << "target", "domain" >>,
       << "target", "name" >>,
       << "competitors" >>,
       << "location", "country" >>,
       << "location", "language_code" >> >>

\* lines 27-52 _validate, from the n-th required field on
RECURSIVE ValidateFrom(_, _)
ValidateFrom(file, n) ==
    IF n > Len(required_fields)
    THEN IF file.competitors.kind # "list" THEN "SystemExit"
         ELSE IF file.competitors.len = 0 THEN "SystemExit"
         ELSE "ok"
    ELSE LET walked == WalkPath(file, file.root, required_fields[n])
         IN  IF walked # "ok" THEN walked
             ELSE ValidateFrom(file, n + 1)

InitConfig ==
    /\ PipelineIdle
    /\ WorkflowIdle
    /\ GoogleIdle
    /\ SitemapIdle
    /\ ApiIdle
    /\ config_file \in ConfigFiles
    /\ config_result = "none"

\* lines 15-25
ConfigInit ==
    /\ config_result = "none"
    /\ config_result' = IF ~config_file.exists THEN "SystemExit"
                        ELSE ValidateFrom(config_file, 1)
    /\ UNCHANGED config_file
    /\ UNCHANGED notConfigVars

NextConfig == ConfigInit

SpecConfig == InitConfig /\ [][NextConfig]_vars

(***************************************************************************)
(* dataforseo_collection.py:71-178, 339-366 the API calls of phase 1       *)
(***************************************************************************)
\* What a POST to DataForSEO may bring: no connection, an HTTP error
\* status, an API error status without or with a result in the body, a task
\* without result, a task with items.
\* The cost counts in thousandths of a dollar.
Response(http, status_code, result, cost) ==
    [ http |-> http, status_code |-> status_code, result |-> result, cost |-> cost ]

ApiResponses ==
    { Response("unreachable", 0, "none", 0),
      Response("error", 0, "none", 0),
      Response("ok", 40000, "none", 50),
      Response("ok", 20100, "items", 50),
      Response("ok", 20000, "none", 50),
      Response("ok", 20000, "items", 50) }

NoData == Response("none", 0, "none", 0)

\* Mutant of make_api_call: the status of the answer is not looked at.
make_api_call_any_status(response) ==
    IF response.http = "ok" THEN response ELSE NoData

\* lines 71-90: the data returned, NoData for None
make_api_call(response) ==
    IF response.http = "ok" /\ response.status_code = 20000 THEN response ELSE NoData

\* lines 339-366: the calls of phase 1 for the target and one competitor
CallPlan ==
    << "get_domain_metrics", "get_domain_metrics",
       "get_ranked_keywords", "get_ranked_keywords",
       "get_bulk_backlinks", "get_keyword_ideas" >>

\* lines 112, 136, 155, 178: what a fetcher returns when it got nothing
EmptyValue(fetcher) ==
    IF fetcher = "get_domain_metrics" THEN "None"
    ELSE IF fetcher = "get_bulk_backlinks" THEN "{}"
    ELSE "[]"

InitApi ==
    /\ PipelineIdle
    /\ WorkflowIdle
    /\ GoogleIdle
    /\ SitemapIdle
    /\ ConfigIdle
    /\ total_cost = 0
    /\ api_log = << >>

\* lines 93-112, 115-136, 139-155, 158-178: one fetcher called at its place
\* in the plan
Fetch(fetcher) ==
    /\ Len(api_log) < Len(CallPlan)
    /\ CallPlan[Len(api_log) + 1] = fetcher
    /\ \E response \in ApiResponses :
         LET answer == make_api_call(response)
             got == answer # NoData /\ answer.result # "none"
         IN  /\ total_cost' = IF got THEN total_cost + answer.cost ELSE total_cost
             /\ api_log' = Append(api_log,
                    [ fetcher |-> fetcher, response |-> response,
                      returned |-> IF got THEN "items" ELSE EmptyValue(fetcher),
                      cost_before |-> total_cost ])
    /\ UNCHANGED notApiVars

get_domain_metrics == Fetch("get_domain_metrics")

get_ranked_keywords == Fetch("get_ranked_keywords")

get_bulk_backlinks == Fetch("get_bulk_backlinks")

get_keyword_ideas == Fetch("get_keyword_ideas")

NextApi ==
    \/ get_domain_metrics
    \/ get_ranked_keywords
    \/ get_bulk_backlinks
    \/ get_keyword_ideas

SpecApi == InitApi /\ [][NextApi]_vars

(***************************************************************************)
(* run_analysis.py:71-90, 155-207 run_script and run_all_steps             *)
(***************************************************************************)
\* lines 159-166
steps ==
    << "collect_data.py", "dataforseo_collection.py", "geo_analyzer.py",
       "google_integration.py", "performance_check.py", "generate_report.py" >>

\* lines 170-185: the results recorded from step i on; a script that is
\* not there is recorded as failed and the loop continues, a script that
\* fails is recorded and the loop breaks
RECURSIVE RunSteps(_, _, _)
RunSteps(i, exists, succeeds) ==
    IF i > Len(steps) THEN << >>
    ELSE IF ~exists[i]
    THEN << [ script |-> steps[i], success |-> FALSE, executed |-> FALSE ] >>
         \o RunSteps(i + 1, exists, succeeds)
    ELSE IF succeeds[i]
    THEN << [ script |-> steps[i], success |-> TRUE, executed |-> TRUE ] >>
         \o RunSteps(i + 1, exists, succeeds)
    ELSE << [ script |-> steps[i], success |-> FALSE, executed |-> TRUE ] >>

InitWorkflow ==
    /\ PipelineIdle
    /\ GoogleIdle
    /\ SitemapIdle
    /\ ConfigIdle
    /\ ApiIdle
    /\ workflow_results = << >>
    /\ workflow_report = "none"

\* lines 155-207; which scripts are on disk and which of them exit with 0
\* is the environment's choice
run_all_steps ==
    /\ workflow_report = "none"
    /\ \E exists \in [ 1..Len(steps) -> BOOLEAN ], succeeds \in [ 1..Len(steps) -> BOOLEAN ] :
         LET results == RunSteps(1, exists, succeeds)
         IN  /\ workflow_results' = results
             /\ workflow_report' =
                    IF \A n \in 1..Len(results) : results[n].success
                    THEN "all_success"
                    ELSE "some_failed"
    /\ UNCHANGED notWorkflowVars

NextWorkflow == run_all_steps

SpecWorkflow == InitWorkflow /\ [][NextWorkflow]_vars

(***************************************************************************)
(* Properties of the gap engine                                            *)
(***************************************************************************)
\* process_keyword_gaps has returned
GapsComputed == pc \in { "phase2_done", "phase3_intent", "final_save", "exited" }

TargetItems == Range(ItemsOf(ranked_keywords, TARGET_DOMAIN))

\* The competitor records in the order the code meets them: << d, j >> is
\* record j of the d-th entry of ranked_keywords.
CompetitorRecords ==
    { c \in (1..Len(ranked_keywords)) \X (1..MaxRecords) :
        /\ ranked_keywords[c[1]].domain # TARGET_DOMAIN
        /\ c[2] <= Len(ranked_keywords[c[1]].items) }

RecordAt(c) == ranked_keywords[c[1]].items[c[2]]

RankedByTarget(keyword) ==
    \E item \in TargetItems :
        Truthy(KeywordOf(item)) /\ Lower(KeywordOf(item)) = Lower(keyword)

\* the competitor records that are keyword gaps
GapRecords ==
    { c \in CompetitorRecords :
        Truthy(KeywordOf(RecordAt(c))) /\ ~RankedByTarget(KeywordOf(RecordAt(c))) }

GapOfRecord(c) == MakeGap(RecordAt(c), ranked_keywords[c[1]].domain)

EmittedBefore(c1, c2) == c1[1] < c2[1] \/ (c1[1] = c2[1] /\ c1[2] < c2[2])

\* C1 (Exclusivity): no entry of all_gaps has a keyword whose lowercased form
\* equals the lowercased form of a keyword ranked by the target domain.
C1_Exclusivity ==
    \A i \in 1..Len(all_gaps) : ~RankedByTarget(all_gaps[i].keyword)

\* C1 witness: gaps were computed, some gaps exist, and a competitor record
\* was excluded although its keyword differs in letter case from the target's.
C1_Witness ==
    /\ pc = "phase2_done"
    /\ all_gaps # << >>
    /\ \E c \in CompetitorRecords : \E item \in TargetItems :
          /\ Truthy(KeywordOf(RecordAt(c)))
          /\ KeywordOf(RecordAt(c)) # KeywordOf(item)
          /\ Lower(KeywordOf(RecordAt(c))) = Lower(KeywordOf(item))

\* C2 (Completeness): once process_keyword_gaps has returned, every competitor
\* record whose lowercased keyword the target does not rank has its gap (same
\* keyword text, that competitor, that record's volume) in all_gaps, and
\* all_gaps has one entry per such record: neither the sort nor the cap on
\* top_100 drops any.
C2_Completeness ==
    GapsComputed =>
        /\ \A c \in GapRecords :
              \E i \in 1..Len(all_gaps) :
                  /\ all_gaps[i].keyword = RecordAt(c).keyword
                  /\ all_gaps[i].competitor = ranked_keywords[c[1]].domain
                  /\ all_gaps[i].search_volume = Get(RecordAt(c), "search_volume", 0)
        /\ Len(all_gaps) = Cardinality(GapRecords)

\* C2 witness: the cap cut top_100 while all_gaps kept every gap, of two
\* competitors.
C2_Witness ==
    /\ pc = "phase2_done"
    /\ Len(top_100) = TopLimit
    /\ Len(all_gaps) > TopLimit
    /\ \E i, j \in 1..Len(all_gaps) : all_gaps[i].competitor # all_gaps[j].competitor

\* C3 (Dedup correctness): top_100 never holds two entries whose keywords are
\* equal after lowercasing, and never more than TopLimit (the code's 100)
\* entries.
C3_DedupCorrect ==
    /\ Len(top_100) <= TopLimit
    /\ \A i, j \in 1..Len(top_100) :
          i # j => Lower(top_100[i].keyword) # Lower(top_100[j].keyword)

\* C3 witness: two gaps whose keywords differ only in letter case were
\* collapsed into one entry of top_100.
C3_Witness ==
    /\ pc = "phase2_done"
    /\ top_100 # << >>
    /\ Len(top_100) < Len(all_gaps)
    /\ \E i, j \in 1..Len(all_gaps) :
          /\ all_gaps[i].keyword # all_gaps[j].keyword
          /\ Lower(all_gaps[i].keyword) = Lower(all_gaps[j].keyword)

\* C4 (Dedup winner): every entry of top_100 is the gap of a record that has
\* the highest volume among the gap records of its lowercased keyword and,
\* among those of that volume, is the earliest emitted (domain order, then
\* record order within the domain).
C4_DedupWinner ==
    GapsComputed =>
        LET records == GapRecords
        IN  \A i \in 1..Len(top_100) :
                \E c \in records :
                    /\ GapOfRecord(c) = top_100[i]
                    /\ \A o \in records :
                          Lower(KeywordOf(RecordAt(o))) = Lower(top_100[i].keyword) =>
                              \/ GapOfRecord(o).search_volume < top_100[i].search_volume
                              \/ /\ GapOfRecord(o).search_volume = top_100[i].search_volume
                                 /\ ~EmittedBefore(o, c)

\* C4 witness: one keyword has two different gaps of the same, highest volume
\* and a third gap of a lower volume.
C4_Witness ==
    /\ pc = "phase2_done"
    /\ \E a, b, l \in GapRecords :
          /\ GapOfRecord(a) # GapOfRecord(b)
          /\ Lower(KeywordOf(RecordAt(a))) = Lower(KeywordOf(RecordAt(b)))
          /\ Lower(KeywordOf(RecordAt(a))) = Lower(KeywordOf(RecordAt(l)))
          /\ GapOfRecord(a).search_volume = GapOfRecord(b).search_volume
          /\ GapOfRecord(l).search_volume < GapOfRecord(a).search_volume
          /\ GapOfRecord(a) = top_100[1]

NonIncreasing(gaps) ==
    \A i \in 1..(Len(gaps) - 1) :
        Get(gaps[i], "search_volume", 0) >= Get(gaps[i + 1], "search_volume", 0)

\* C5 (Sort invariant): all_gaps, top_100 and each of the four category
\* buckets are ordered non-increasing in search_volume.
C5_SortInvariant ==
    /\ NonIncreasing(all_gaps)
    /\ NonIncreasing(top_100)
    /\ \A c \in Categories : NonIncreasing(categorized_gaps[c])

\* C5 witness: after a collection run and a report run, all_gaps and a bucket
\* each hold gaps of different volumes.
C5_Witness ==
    /\ rpc = "categorized"
    /\ \E i, j \in 1..Len(all_gaps) : all_gaps[i].search_volume > all_gaps[j].search_volume
    /\ ranked_keywords # << >>
    /\ \E c \in Categories :
          /\ Len(categorized_gaps[c]) >= 2
          /\ categorized_gaps[c][1].search_volume > categorized_gaps[c][2].search_volume


(***************************************************************************)
(* Properties of the enrichment join and the categorization                *)
(***************************************************************************)
Categorized == rpc = "categorized"

InBucket(c, gap) ==
    \E j \in 1..Len(categorized_gaps[c]) : categorized_gaps[c][j] = gap

\* in how many places of the four buckets the gap is
Occurrences(gap) ==
    Cardinality({ p \in Categories \X (1..Len(top_100_gaps)) :
                    /\ p[2] <= Len(categorized_gaps[p[1]])
                    /\ categorized_gaps[p[1]][p[2]] = gap })

BucketSizes ==
    Len(categorized_gaps.high_opportunity) + Len(categorized_gaps.quick_wins)
        + Len(categorized_gaps.content_gaps) + Len(categorized_gaps.product_gaps)

\* the conditions of rules 1 and 2 as the claims state them
HighCondition(gap) == gap.search_volume >= 500 /\ gap.competitor_position <= 10

QuickCondition(gap) ==
    gap.difficulty # 0 /\ gap.difficulty < 40 * Scale /\ gap.search_volume >= 100

HasBest(gap) == Contains(Lower(gap.keyword), kBest)

\* C6 (Partition totality): after categorization every gap of top_100 is in
\* exactly one place of the four buckets, and the bucket sizes sum to the
\* size of top_100.
C6_PartitionTotality ==
    Categorized =>
        /\ \A i \in 1..Len(top_100_gaps) : Occurrences(top_100_gaps[i]) = 1
        /\ BucketSizes = Len(top_100_gaps)
        /\ Len(top_100_gaps) = Len(final_file.top_100)

\* C6 witness: two gaps were categorized and one of them meets the
\* conditions of rule 1 and of rule 2 at once.
C6_Witness ==
    /\ Categorized
    /\ Len(top_100_gaps) = 2
    /\ \E i \in 1..Len(top_100_gaps) :
          HighCondition(top_100_gaps[i]) /\ QuickCondition(top_100_gaps[i])

\* C7 (Idempotence): running enrichment and categorization again over the
\* gap records a previous pass has enriched, with the same feeds, leaves the
\* enriched gaps and the four buckets exactly as the first pass made them.
C7_Idempotence ==
    passes >= 2 =>
        /\ top_100_gaps = first_pass.gaps
        /\ categorized_gaps = first_pass.buckets

\* C7 witness: a second pass ran over a gap whose difficulty, cpc and intent
\* the first pass had set from the feeds.
C7_Witness ==
    /\ passes = 2
    /\ \E i \in 1..Len(top_100_gaps) :
          /\ top_100_gaps[i].difficulty # 0
          /\ top_100_gaps[i].cpc # final_file.top_100[i].cpc
          /\ top_100_gaps[i].intent # "unknown"

\* C8 (Rule 1 precedence): a gap is in high_opportunity if and only if its
\* search_volume >= 500 and its competitor_position <= 10, whatever its
\* difficulty, intent or keyword; a gap of position 999 is never there.
C8_Rule1 ==
    Categorized =>
        \A i \in 1..Len(top_100_gaps) :
            /\ InBucket("high_opportunity", top_100_gaps[i]) <=> HighCondition(top_100_gaps[i])
            /\ top_100_gaps[i].competitor_position = 999
                  => ~InBucket("high_opportunity", top_100_gaps[i])

\* C8 witness: a gap in high_opportunity that also meets the conditions of
\* rules 2, 3 and 4.
C8_Witness ==
    /\ Categorized
    /\ \E i \in 1..Len(top_100_gaps) :
          /\ InBucket("high_opportunity", top_100_gaps[i])
          /\ QuickCondition(top_100_gaps[i])
          /\ HasBest(top_100_gaps[i])
          /\ top_100_gaps[i].intent = "transactional"

\* the enrichment feed gives no competition value for the gap's keyword
NoCompetitionValue(gap) ==
    \A j \in 1..Len(final_file.keyword_enrichment) :
        final_file.keyword_enrichment[j].keyword = gap.keyword
            => "competition" \notin DOMAIN final_file.keyword_enrichment[j]

\* C9 (Rule 2): a gap that fails rule 1 is in quick_wins if and only if its
\* difficulty is non-zero and below 40 and its search_volume is at least 100;
\* a gap without a competition value in the feed has difficulty 0, is not in
\* quick_wins and is placed by the later rules.
C9_Rule2 ==
    Categorized =>
        \A i \in 1..Len(top_100_gaps) :
            ~HighCondition(top_100_gaps[i]) =>
                /\ InBucket("quick_wins", top_100_gaps[i]) <=> QuickCondition(top_100_gaps[i])
                /\ NoCompetitionValue(top_100_gaps[i]) =>
                      /\ top_100_gaps[i].difficulty = 0
                      /\ ~InBucket("quick_wins", top_100_gaps[i])
                      /\ \/ InBucket("content_gaps", top_100_gaps[i])
                         \/ InBucket("product_gaps", top_100_gaps[i])

\* C9 witness: a gap of volume >= 100 that fails rule 1 and whose feed entry
\* carries no competition value was categorized.
C9_Witness ==
    /\ Categorized
    /\ \E i \in 1..Len(top_100_gaps) :
          /\ ~HighCondition(top_100_gaps[i])
          /\ top_100_gaps[i].search_volume >= 100
          /\ HasEntry(final_file.keyword_enrichment, top_100_gaps[i].keyword)
          /\ NoCompetitionValue(top_100_gaps[i])

FailsRules1And2(gap) == ~HighCondition(gap) /\ ~QuickCondition(gap)

\* C10 as stated: a gap that fails rules 1 and 2 and whose keyword contains
\* 'best' is in content_gaps and not in product_gaps, unless its intent is
\* transactional, and then it is in product_gaps.
C10_Original ==
    Categorized =>
        \A i \in 1..Len(top_100_gaps) :
            (FailsRules1And2(top_100_gaps[i]) /\ Contains(top_100_gaps[i].keyword, kBest)) =>
                IF top_100_gaps[i].intent = "transactional"
                THEN InBucket("product_gaps", top_100_gaps[i])
                ELSE /\ InBucket("content_gaps", top_100_gaps[i])
                     /\ ~InBucket("product_gaps", top_100_gaps[i])

\* C10 (Shared trigger 'best'), amended: a gap that fails rules 1 and 2 and
\* whose lowercased keyword contains 'best' is in content_gaps and not in
\* product_gaps, whatever its intent, transactional included.
C10_BestIsContent ==
    Categorized =>
        \A i \in 1..Len(top_100_gaps) :
            (FailsRules1And2(top_100_gaps[i]) /\ HasBest(top_100_gaps[i])) =>
                /\ InBucket("content_gaps", top_100_gaps[i])
                /\ ~InBucket("product_gaps", top_100_gaps[i])

\* C10 witness: a gap whose keyword contains 'best' and whose intent is
\* transactional failed rules 1 and 2 and was placed in content_gaps.
C10_Witness ==
    /\ Categorized
    /\ \E i \in 1..Len(top_100_gaps) :
          /\ FailsRules1And2(top_100_gaps[i])
          /\ Contains(top_100_gaps[i].keyword, kBest)
          /\ top_100_gaps[i].intent = "transactional"
          /\ InBucket("content_gaps", top_100_gaps[i])

\* the condition of product_gaps as the claim states it
ProductCondition(gap) ==
    /\ gap.intent # "informational"
    /\ \A w \in ContentWords : ~Contains(Lower(gap.keyword), w)
    /\ \/ gap.intent = "transactional"
       \/ \E w \in ProductWords : Contains(Lower(gap.keyword), w)

\* nothing of rules 3 and 4 matches the gap
NothingMatches(gap) ==
    /\ gap.intent \notin { "informational", "transactional" }
    /\ \A w \in ContentWords \cup ProductWords : ~Contains(Lower(gap.keyword), w)

\* C11 (Rules 3-5): a gap that fails rules 1 and 2 is in product_gaps exactly
\* when its intent is not informational, its lowercased keyword contains no
\* content substring, and its intent is transactional or its lowercased
\* keyword contains a commerce substring; every other gap that fails rules 1
\* and 2 is in content_gaps, the gap that matches nothing included.
C11_Rules345 ==
    Categorized =>
        \A i \in 1..Len(top_100_gaps) :
            FailsRules1And2(top_100_gaps[i]) =>
                /\ InBucket("product_gaps", top_100_gaps[i]) <=> ProductCondition(top_100_gaps[i])
                /\ InBucket("content_gaps", top_100_gaps[i]) <=> ~ProductCondition(top_100_gaps[i])

\* C11 witness: of two gaps that fail rules 1 and 2, one is in product_gaps
\* by a commerce substring alone (its intent is unknown), and one that
\* matches nothing is in content_gaps by default.
C11_Witness ==
    /\ Categorized
    /\ \E i, j \in 1..Len(top_100_gaps) :
          /\ FailsRules1And2(top_100_gaps[i])
          /\ FailsRules1And2(top_100_gaps[j])
          /\ Contains(Lower(top_100_gaps[i].keyword), kBuy)
          /\ top_100_gaps[i].intent = "unknown"
          /\ InBucket("product_gaps", top_100_gaps[i])
          /\ NothingMatches(top_100_gaps[j])
          /\ InBucket("content_gaps", top_100_gaps[j])

\* the feed has no item of exactly this keyword
NoEntry(feed, keyword) == \A j \in 1..Len(feed) : feed[j].keyword # keyword

\* the report has run its categorization, to the end or to an exception
CategorizeReturned == rpc \in { "categorized", "raised" }

\* C12 (Enrichment miss): categorization raises nothing for a gap whose
\* keyword has no item in a feed; a gap without an item in the metrics feed
\* gets difficulty 0 and cpc 0, whatever cpc it carried, a gap without an item
\* in the intent feed gets intent 'unknown', and the gap is in one bucket.
C12_EnrichmentMiss ==
    CategorizeReturned =>
        /\ rpc = "categorized"
        /\ \A i \in 1..Len(top_100_gaps) :
              /\ NoEntry(final_file.keyword_enrichment, top_100_gaps[i].keyword) =>
                    top_100_gaps[i].difficulty = 0 /\ top_100_gaps[i].cpc = 0
              /\ NoEntry(final_file.search_intent, top_100_gaps[i].keyword) =>
                    top_100_gaps[i].intent = "unknown"
              /\ Occurrences(top_100_gaps[i]) = 1

\* C12 witness: a gap that carried a non-zero cpc and has no item in either
\* feed was categorized next to a gap that has an item in the metrics feed.
C12_Witness ==
    /\ Categorized
    /\ \E i, j \in 1..Len(top_100_gaps) :
          /\ final_file.top_100[i].cpc # 0
          /\ NoEntry(final_file.keyword_enrichment, top_100_gaps[i].keyword)
          /\ NoEntry(final_file.search_intent, top_100_gaps[i].keyword)
          /\ top_100_gaps[i].cpc = 0
          /\ ~NoEntry(final_file.keyword_enrichment, top_100_gaps[j].keyword)
          /\ top_100_gaps[j].difficulty # 0

\* the feed has items of this keyword in another letter case only
CaseOnlyEntry(feed, keyword) ==
    /\ NoEntry(feed, keyword)
    /\ \E j \in 1..Len(feed) : Lower(feed[j].keyword) = Lower(keyword)

\* C13 (Exact-case join): a gap whose keyword the metrics feed (the intent
\* feed) holds in another letter case only gets difficulty 0 (intent
\* 'unknown'), while the gap engine takes the two spellings for one keyword:
\* the feed's spelling is no entry of top_100 beside the gap.
C13_ExactCaseJoin ==
    Categorized =>
        \A i \in 1..Len(top_100_gaps) :
            /\ CaseOnlyEntry(final_file.keyword_enrichment, top_100_gaps[i].keyword) =>
                  /\ top_100_gaps[i].difficulty = 0
                  /\ \A j \in 1..Len(final_file.keyword_enrichment) :
                        Lower(final_file.keyword_enrichment[j].keyword)
                              = Lower(top_100_gaps[i].keyword) =>
                            \A k \in 1..Len(top_100_gaps) :
                                top_100_gaps[k].keyword
                                    # final_file.keyword_enrichment[j].keyword
            /\ CaseOnlyEntry(final_file.search_intent, top_100_gaps[i].keyword) =>
                  top_100_gaps[i].intent = "unknown"

\* C13 witness: a collection run found gaps 'Buy' and 'buy', kept 'Buy' in
\* top_100, both feeds answered with 'buy' (the metrics feed with a
\* competition value), and the report gave 'Buy' difficulty 0 and intent
\* 'unknown'.
C13_Witness ==
    /\ Categorized
    /\ \E a, b \in 1..Len(all_gaps) :
          all_gaps[a].keyword = kBuyCap /\ all_gaps[b].keyword = kBuy
    /\ \E i \in 1..Len(top_100_gaps) :
          /\ top_100_gaps[i].keyword = kBuyCap
          /\ CaseOnlyEntry(final_file.keyword_enrichment, kBuyCap)
          /\ CaseOnlyEntry(final_file.search_intent, kBuyCap)
          /\ \E j \in 1..Len(final_file.keyword_enrichment) :
                /\ final_file.keyword_enrichment[j].keyword = kBuy
                /\ "competition" \in DOMAIN final_file.keyword_enrichment[j]
          /\ top_100_gaps[i].difficulty = 0
          /\ top_100_gaps[i].intent = "unknown"

\* process_keyword_gaps was called and has returned or raised
ProcessReturned == pc \notin { "phase1", "phase2" }

\* the target domain has no entry in ranked_keywords
NoTargetCorpus ==
    \A d \in 1..Len(ranked_keywords) : ranked_keywords[d].domain # TARGET_DOMAIN

\* the competitor records that have keyword text
KeywordRecords == { c \in CompetitorRecords : Truthy(KeywordOf(RecordAt(c))) }

\* C14 (Missing target data): when the target domain has no entry in
\* ranked_keywords, gap computation raises nothing, the target keyword set is
\* empty, and every competitor record with keyword text has its gap in
\* all_gaps, one gap per such record.
C14_MissingTargetData ==
    (ProcessReturned /\ NoTargetCorpus) =>
        /\ pc # "raised"
        /\ TargetKeywords(ranked_keywords) = {}
        /\ \A c \in KeywordRecords :
              \E i \in 1..Len(all_gaps) : all_gaps[i] = GapOfRecord(c)
        /\ Len(all_gaps) = Cardinality(KeywordRecords)

\* C14 witness: the target's fetch stored nothing, two competitors have
\* corpora, and a keyword the target's corpus would have held is a gap.
C14_Witness ==
    /\ pc = "phase2_done"
    /\ NoTargetCorpus
    /\ Len(ranked_keywords) = 2
    /\ \E i \in 1..Len(all_gaps) : \E t \in TargetPool :
          all_gaps[i].keyword = KeywordOf(t)

\* C15 (Empty input): with no competitor keyword record at all,
\* process_keyword_gaps raises nothing and leaves all_gaps and top_100 empty,
\* and the categorization of that top_100 raises nothing and leaves the four
\* buckets empty.
C15_EmptyInput ==
    (ProcessReturned /\ CompetitorRecords = {}) =>
        /\ pc # "raised"
        /\ all_gaps = << >>
        /\ top_100 = << >>
        /\ CategorizeReturned =>
              /\ rpc = "categorized"
              /\ top_100_gaps = << >>
              /\ \A c \in Categories : categorized_gaps[c] = << >>

\* C15 witness: the target has a corpus, no competitor has one, the gaps
\* were computed and saved, and the report categorized the empty top_100.
C15_Witness ==
    /\ Categorized
    /\ CompetitorRecords = {}
    /\ TargetItems # {}
    /\ final_file.saved
    /\ final_file.top_100 = << >>

\* C16 (Empty result): a collection run whose gap processing found no gap
\* ends with the empty top_100 in its saved file and with exit status 0, not
\* with an error exit.
C16_EmptyResultTerminal ==
    (pc = "exited" /\ top_100 = << >>) =>
        /\ final_file.saved
        /\ final_file.top_100 = << >>
        /\ exit_code = 0

TargetSeq == ItemsOf(ranked_keywords, TARGET_DOMAIN)

\* C17 (Malformed record): gap computation raises nothing over records
\* without keyword text; no gap is made of such a record; every gap record
\* met after such a competitor record, in its domain or a later one, has its
\* gap in all_gaps; and a target keyword met after such a target record
\* still excludes its keyword from all_gaps.
C17_MalformedRecord ==
    ProcessReturned =>
        /\ pc # "raised"
        /\ \A i \in 1..Len(all_gaps) : Truthy(all_gaps[i].keyword)
        /\ Len(all_gaps) <= Cardinality(KeywordRecords)
        /\ \A c \in CompetitorRecords \ KeywordRecords :
              \A o \in GapRecords :
                  EmittedBefore(c, o) =>
                      \E i \in 1..Len(all_gaps) : all_gaps[i] = GapOfRecord(o)
        /\ \A j, k \in 1..Len(TargetSeq) :
              (j < k /\ ~Truthy(KeywordOf(TargetSeq[j])) /\ Truthy(KeywordOf(TargetSeq[k]))) =>
                  \A i \in 1..Len(all_gaps) :
                      Lower(all_gaps[i].keyword) # Lower(KeywordOf(TargetSeq[k]))

\* C17 witness: a competitor's first record has no keyword text, its next
\* record and a record of the next competitor are gap records, and all_gaps
\* holds exactly those two gaps.
C17_Witness ==
    /\ pc = "phase2_done"
    /\ Len(all_gaps) = 2
    /\ \E c \in CompetitorRecords \ KeywordRecords :
          \E o1, o2 \in GapRecords :
              /\ c[2] = 1
              /\ o1[1] = c[1] /\ o1[2] = 2
              /\ o2[1] > c[1]

\* the record's search volume is unknown: the key is absent or its value null
UnknownVolume(item) ==
    "search_volume" \notin DOMAIN item \/ item.search_volume = None

\* C18 (Unknown volume): gap computation raises nothing over records of
\* unknown search volume, and every gap record of unknown volume has a gap
\* of search_volume 0 in all_gaps.
C18_UnknownVolume ==
    ProcessReturned =>
        /\ pc # "raised"
        /\ \A c \in GapRecords :
              UnknownVolume(RecordAt(c)) =>
                  \E i \in 1..Len(all_gaps) :
                      /\ all_gaps[i].keyword = RecordAt(c).keyword
                      /\ all_gaps[i].competitor = ranked_keywords[c[1]].domain
                      /\ all_gaps[i].search_volume = 0

\* a gap record the categorizer is to reject
Malformed(gap) == "keyword" \notin DOMAIN gap \/ Get(gap, "search_volume", 0) < 0

InSomeBucket(gap) == \E c \in Categories : InBucket(c, gap)

\* C19 (Classification skip): the categorization run is not aborted by a
\* malformed gap record (no keyword key, or a negative search volume); such
\* a record is in no bucket, and every other gap of top_100 is in exactly one.
C19_ClassificationSkip ==
    CategorizeReturned =>
        /\ rpc = "categorized"
        /\ \A i \in 1..Len(top_100_gaps) :
              IF Malformed(final_file.top_100[i])
              THEN ~InSomeBucket(top_100_gaps[i])
              ELSE Occurrences(top_100_gaps[i]) = 1

\* item j is the metrics feed's item for the keyword: the last one of that
\* keyword
MetricsItem(j, keyword) ==
    /\ final_file.keyword_enrichment[j].keyword = keyword
    /\ \A l \in (j + 1)..Len(final_file.keyword_enrichment) :
          final_file.keyword_enrichment[l].keyword # keyword

\* x rounded to a whole number, in units of 1/Scale
Rounded(x) == Scale * ((x + Scale \div 2) \div Scale)

\* C20 as stated: the difficulty of a gap whose metrics item has a
\* competition value c is c * 100 rounded to a whole number between 0 and
\* 100, and 0 when the item has no competition value.
C20_Original ==
    Categorized =>
        \A i \in 1..Len(top_100_gaps) :
            \A j \in 1..Len(final_file.keyword_enrichment) :
                MetricsItem(j, top_100_gaps[i].keyword) =>
                    IF "competition" \in DOMAIN final_file.keyword_enrichment[j]
                    THEN /\ top_100_gaps[i].difficulty
                              = Rounded(final_file.keyword_enrichment[j].competition * 100)
                         /\ top_100_gaps[i].difficulty % Scale = 0
                         /\ top_100_gaps[i].difficulty \in 0..(100 * Scale)
                    ELSE top_100_gaps[i].difficulty = 0

\* C20 (Difficulty value), amended: the difficulty of a gap whose metrics
\* item has a competition value c is c * 100 without any rounding, between 0
\* and 100 for c in [0,1] and not whole unless c * 100 is; it is 0 when the
\* item has no competition value or the feed has no item for the keyword.
C20_DifficultyUnrounded ==
    Categorized =>
        \A i \in 1..Len(top_100_gaps) :
            /\ \A j \in 1..Len(final_file.keyword_enrichment) :
                  MetricsItem(j, top_100_gaps[i].keyword) =>
                      IF "competition" \in DOMAIN final_file.keyword_enrichment[j]
                      THEN /\ top_100_gaps[i].difficulty
                                = final_file.keyword_enrichment[j].competition * 100
                           /\ top_100_gaps[i].difficulty \in 0..(100 * Scale)
                      ELSE top_100_gaps[i].difficulty = 0
            /\ NoEntry(final_file.keyword_enrichment, top_100_gaps[i].keyword) =>
                  top_100_gaps[i].difficulty = 0

\* C20 witness: a gap got a difficulty that is not a whole number (39.9 of
\* the competition 0.399) and was placed in quick_wins, where the rounded
\* value 40 would not have placed it.
C20_Witness ==
    /\ Categorized
    /\ \E i \in 1..Len(top_100_gaps) :
          /\ top_100_gaps[i].difficulty % Scale # 0
          /\ Rounded(top_100_gaps[i].difficulty) = 40 * Scale
          /\ InBucket("quick_wins", top_100_gaps[i])

(***************************************************************************)
(* Properties of the GoogleIntegration object                              *)
(***************************************************************************)
\* the place of the last method call in the history
LastCall ==
    CHOOSE k \in 0..Len(google_log) :
        /\ k > 0 => google_log[k].op \in MethodCalls
        /\ \A i \in (k + 1)..Len(google_log) : google_log[i].op \notin MethodCalls

\* init_gsc has returned True before place k of the history: called by the
\* user, or inside a fetch_gsc_data that went on to query
GscInitializedBefore(k) ==
    \E j \in 1..(k - 1) :
        \/ google_log[j].op = "init_gsc" /\ google_log[j].answer = "True"
        \/ google_log[j].op = "query"

Ga4InitializedBefore(k) ==
    \E j \in 1..(k - 1) :
        \/ google_log[j].op = "init_ga4" /\ google_log[j].answer = "True"
        \/ google_log[j].op = "run_report"

\* the last call found an accessible property: the history ends with its
\* two queries, neither denied
GscFetched ==
    /\ LastCall > 0
    /\ google_log[LastCall].op = "fetch_gsc_data"
    /\ Len(google_log) >= LastCall + 2
    /\ google_log[Len(google_log)].answer # "denied"
    /\ google_log[Len(google_log) - 1].answer # "denied"
    /\ google_log[Len(google_log)].arg = google_log[Len(google_log) - 1].arg

RowsCurrent == google_log[Len(google_log) - 1].rows
RowsPrevious == google_log[Len(google_log)].rows

\* C21: a fetch_gsc_data that follows a successful init_gsc on the same
\* object (called directly, or inside an earlier fetch_gsc_data) queries
\* Search Console, and when a property is accessible the totals are the
\* sums of the rows fetched.
C21_FetchAfterInitGsc ==
    (/\ LastCall > 0
     /\ google_log[LastCall].op = "fetch_gsc_data"
     /\ creds.kind # "none"
     /\ GscInitializedBefore(LastCall))
    => /\ Len(google_log) > LastCall
       /\ google_log[LastCall + 1].op = "query"
       /\ GscFetched => /\ data.gsc.totals.clicks = SumOf(RowsCurrent, "clicks")
                         /\ "clicks_prev" \in DOMAIN data.gsc.totals
                         /\ data.gsc.totals.clicks_prev = SumOf(RowsPrevious, "clicks")

\* C22: a fetch_ga4_data with a property id that follows a successful
\* init_ga4 on the same object runs the report, and sessions and users are
\* the sums over the report's rows.
C22_FetchAfterInitGa4 ==
    (/\ LastCall > 0
     /\ google_log[LastCall].op = "fetch_ga4_data"
     /\ google_log[LastCall].arg # << >>
     /\ creds.kind # "none"
     /\ Ga4InitializedBefore(LastCall))
    => /\ Len(google_log) > LastCall
       /\ google_log[LastCall + 1].op = "run_report"
       /\ google_log[LastCall + 1].answer = "rows"
           => /\ data.ga4.sessions = SumOf(google_log[LastCall + 1].rows, "sessions")
              /\ data.ga4.users = SumOf(google_log[LastCall + 1].rows, "users")

\* C23: after a fetch that found an accessible property, totals.clicks is
\* the sum of the clicks of the current period's rows, clicks_prev the sum
\* over the previous period's rows, and clicks_growth is the change relative
\* to clicks_prev as a percentage (to the nearest tenth, the one decimal the
\* code keeps) when clicks_prev > 0 and 0 when it is 0; 100 clicks against
\* 80 give 25.0.
C23_GscTotals ==
    GscFetched =>
        LET totals == data.gsc.totals
            clicks == SumOf(RowsCurrent, "clicks")
            clicks_prev == SumOf(RowsPrevious, "clicks")
            off == totals.clicks_growth * clicks_prev
                   - (clicks - clicks_prev) * 100 * Tenths
        IN  /\ totals.clicks = clicks
            /\ totals.clicks_prev = clicks_prev
            /\ clicks_prev > 0 => 2 * off <= clicks_prev /\ -2 * off <= clicks_prev
            /\ clicks_prev = 0 => totals.clicks_growth = 0
            /\ (clicks = 100 /\ clicks_prev = 80) => totals.clicks_growth = 25 * Tenths

C23_Witness ==
    /\ GscFetched
    /\ SumOf(RowsCurrent, "clicks") = 100
    /\ SumOf(RowsPrevious, "clicks") = 80
    /\ data.gsc.totals.clicks_growth = 25 * Tenths

\* token.json yields valid credentials
TokenUsable ==
    token_file.exists /\ token_file.readable /\ token_file.creds.valid

\* token.json yields nothing that is valid or could be refreshed
NoUsableCredentials ==
    \/ ~token_file.exists
    \/ ~token_file.readable
    \/ ~token_file.creds.valid
       /\ ~(token_file.creds.expired /\ token_file.creds.refresh_token)

\* C24: authenticate_user, (a) with a token file that yields valid
\* credentials, makes them creds, starts no login flow and writes no token;
\* (b) with no usable credentials and a client-secret file, runs the login
\* flow, and when the flow and the write succeed creds is the flow's result
\* and token.json holds it; (c) with neither file leaves creds None; it
\* always returns.
C24_Authenticate ==
    [][ gpc = "new" =>
          /\ gpc' = "ready"
          /\ TokenUsable =>
                 /\ creds' = token_file.creds
                 /\ google_log' = google_log
                 /\ token_file' = token_file
          /\ (NoUsableCredentials /\ google_env.client_secret) =>
                 /\ Len(google_log') = Len(google_log) + 1
                 /\ google_log'[Len(google_log')].op = "login_flow"
                 /\ google_log'[Len(google_log')].answer = "ok" =>
                        /\ creds' = FlowCreds
                        /\ token_file' = [ exists |-> TRUE, readable |-> TRUE,
                                           creds |-> FlowCreds ]
          /\ (~token_file.exists /\ ~google_env.client_secret) =>
                 /\ creds' = NoCreds
                 /\ google_log' = google_log
                 /\ token_file' = token_file
      ]_vars

\* the three property variants of the domain a.io, in the order of the claim
ExpectedVariants ==
    << sScDomain \o sSite, sHttps \o sSite \o sSlash, sHttps \o sSite >>

VariantQueried(q, n) == \E i \in 1..Len(q) : q[i].arg = ExpectedVariants[n]

VariantDenied(q, n) ==
    \E i \in 1..Len(q) : q[i].arg = ExpectedVariants[n] /\ q[i].answer = "denied"

\* C30: a fetch_gsc_data that gets to query tries the variants
\* sc-domain:<domain>, https://<domain>/, https://<domain> in that order, a
\* later one only after a denial of the one before; the first variant with
\* neither period denied is the one whose rows make the totals and no later
\* variant is queried; when all three are denied data['gsc'] is as before.
C30_PropertyFallback ==
    [][ (/\ Len(google_log') > Len(google_log) + 1
         /\ google_log'[Len(google_log) + 1].op = "fetch_gsc_data")
        => LET q == SubSeq(google_log', Len(google_log) + 2, Len(google_log'))
           IN  /\ \A i \in 1..Len(q) :
                     /\ q[i].op = "query"
                     /\ \E n \in 1..3 : q[i].arg = ExpectedVariants[n]
               /\ \A i, j \in 1..Len(q) : \A n, m \in 1..3 :
                     (i < j /\ q[i].arg = ExpectedVariants[n]
                            /\ q[j].arg = ExpectedVariants[m]) => n <= m
               /\ VariantQueried(q, 1)
               /\ \A n \in 2..3 : VariantQueried(q, n) <=> VariantDenied(q, n - 1)
               /\ \A n \in 1..3 :
                     (VariantQueried(q, n) /\ ~VariantDenied(q, n)) =>
                         /\ Len(q) >= 2
                         /\ q[Len(q) - 1].arg = ExpectedVariants[n]
                         /\ q[Len(q)].arg = ExpectedVariants[n]
                         /\ q[Len(q) - 1].period = "current"
                         /\ q[Len(q)].period = "previous"
                         /\ data'.gsc.totals = Totals(q[Len(q) - 1].rows, q[Len(q)].rows)
               /\ (\A n \in 1..3 : VariantDenied(q, n)) => data'.gsc = data.gsc
      ]_vars

\* the first variant was denied and the second one was used
C30_Witness ==
    /\ GscFetched
    /\ google_log[LastCall + 1].arg = ExpectedVariants[1]
    /\ google_log[LastCall + 1].answer = "denied"
    /\ google_log[Len(google_log)].arg = ExpectedVariants[2]
    /\ data.gsc.totals.clicks = SumOf(RowsCurrent, "clicks")
    /\ data.gsc.totals.clicks > 0

(***************************************************************************)
(* Properties of categorize_url                                            *)
(***************************************************************************)
Analysed == urls # << >> /\ \A i \in 1..Len(urls) : urls[i].type # ""

\* C25: two URLs that differ only in the case of their letters get the
\* same type.
C25_CaseInsensitive ==
    Analysed =>
        \A i, j \in 1..Len(urls) :
            Lower(urls[i].url) = Lower(urls[j].url) => urls[i].type = urls[j].type

C25_Witness ==
    /\ Analysed
    /\ \E i, j \in 1..Len(urls) :
          /\ urls[i].url # urls[j].url
          /\ Lower(urls[i].url) = Lower(urls[j].url)
          /\ urls[i].type = "product"
          /\ urls[j].type = "product"

Matches(u, patterns) == AnyIn(Lower(u), patterns)

MatchesContent(u) == Matches(u, ContentPatterns) \/ Matches(u, DatePatterns)

MatchesNone(u) ==
    /\ ~Matches(u, ProductPatterns)
    /\ ~Matches(u, CategoryPatterns)
    /\ ~MatchesContent(u)
    /\ ~Matches(u, StaticPatterns)

PathsOther == { << "/" >>, << "/", "s", "e", "a", "r", "c", "h" >>, << "/", "a", "c", "c", "o", "u", "n", "t", "/", "l", "o", "g", "i", "n" >> }

\* C28: every URL gets exactly one of the five types; product patterns win
\* over category patterns, these over content patterns, these over static
\* patterns; a URL matching no pattern is content exactly when its path has
\* more than two slashes and a last segment without a dot, and other
\* otherwise; the paths /, /search and /account/login are other.
C28_FirstMatchChain ==
    Analysed =>
        /\ \A i \in 1..Len(urls) :
              LET u == urls[i].url
                  t == urls[i].type
                  deep == /\ CountSlashes(UrlPath(u)) > 2
                          /\ \A k \in 1..Len(LastSegment(UrlPath(u))) :
                                LastSegment(UrlPath(u))[k] # "."
              IN  /\ t \in { "product", "category", "content", "static", "other" }
                  /\ Matches(u, ProductPatterns) => t = "product"
                  /\ (~Matches(u, ProductPatterns) /\ Matches(u, CategoryPatterns))
                         => t = "category"
                  /\ (/\ ~Matches(u, ProductPatterns)
                      /\ ~Matches(u, CategoryPatterns)
                      /\ MatchesContent(u)) => t = "content"
                  /\ (/\ ~Matches(u, ProductPatterns)
                      /\ ~Matches(u, CategoryPatterns)
                      /\ ~MatchesContent(u)
                      /\ Matches(u, StaticPatterns)) => t = "static"
                  /\ (MatchesNone(u) /\ deep) => t = "content"
                  /\ (MatchesNone(u) /\ ~deep) => t = "other"
                  /\ UrlPath(u) \in PathsOther => t = "other"
        /\ categorization.product + categorization.category + categorization.content
              + categorization.static + categorization.other = Len(urls)
        /\ \A t \in DOMAIN categorization :
              categorization[t] = Cardinality({ i \in 1..Len(urls) : urls[i].type = t })

\* a URL with a category and a product pattern is a product, next to a URL
\* of type other
C28_Witness ==
    /\ Analysed
    /\ \E i, j \in 1..Len(urls) :
          /\ Matches(urls[i].url, CategoryPatterns)
          /\ Matches(urls[i].url, ProductPatterns)
          /\ urls[i].type = "product"
          /\ UrlPath(urls[j].url) \in PathsOther
          /\ urls[j].type = "other"

(***************************************************************************)
(* Properties of Config                                                    *)
(***************************************************************************)
\* the file holds a mapping under the section, or nothing at all there
HasField(section, key) ==
    /\ config_file.exists
    /\ section \in config_file.root.keys
    /\ config_file[section].kind = "map"
    /\ key \in config_file[section].keys

ConfigComplete ==
    /\ HasField("target", "domain")
    /\ HasField("target", "name")
    /\ HasField("location", "country")
    /\ HasField("location", "language_code")
    /\ config_file.exists
    /\ "competitors" \in config_file.root.keys
    /\ config_file.competitors.kind = "list"
    /\ config_file.competitors.len > 0

\* C26: the construction of Config ends in SystemExit when the file is
\* missing, when one of target.domain, target.name, competitors,
\* location.country, location.language_code is missing, or when competitors
\* is not a non-empty list.
C26_FailsClosed ==
    (config_result # "none" /\ ~ConfigComplete) => config_result = "SystemExit"

(***************************************************************************)
(* Properties of the API calls                                             *)
(***************************************************************************)
Failed(response) == response.http # "ok" \/ response.status_code # 20000

\* the total cost after the n-th call
CostAfter(n) == IF n = Len(api_log) THEN total_cost ELSE api_log[n + 1].cost_before

\* C27: a call whose HTTP request fails or whose answer has a status other
\* than 20000 makes the fetcher return its empty value (None, [] or {})
\* and leaves total_cost as it was, and the next call of the plan can be
\* made.
C27_IndependentlyFallible ==
    \A n \in 1..Len(api_log) :
        Failed(api_log[n].response) =>
            /\ api_log[n].returned
                  = (IF api_log[n].fetcher = "get_domain_metrics" THEN "None"
                     ELSE IF api_log[n].fetcher = "get_bulk_backlinks" THEN "{}"
                     ELSE "[]")
            /\ CostAfter(n) = api_log[n].cost_before
            /\ (n = Len(api_log) /\ n < Len(CallPlan)) => ENABLED NextApi

\* a failed call between two calls that brought items
C27_Witness ==
    \E n \in 2..(Len(api_log) - 1) :
        /\ api_log[n].response.status_code = 20100
        /\ api_log[n - 1].returned = "items"
        /\ api_log[n + 1].returned = "items"
        /\ total_cost = 100

(***************************************************************************)
(* Properties of run_all_steps                                             *)
(***************************************************************************)
\* C29: once a step is recorded as failed (its script failed or was not
\* found) no later step's script is executed, and the workflow is reported
\* all-successful only if all six steps ran and succeeded.
C29_StopsAtFirstFailure ==
    workflow_report # "none" =>
        /\ \A n, m \in 1..Len(workflow_results) :
              (n < m /\ ~workflow_results[n].success) => ~workflow_results[m].executed
        /\ workflow_report = "all_success" =>
              /\ Len(workflow_results) = 6
              /\ \A n \in 1..6 : /\ workflow_results[n].executed
                                  /\ workflow_results[n].success

====
